---- MODULE Spec2Model ----
(***************************************************************************)
(* A model of bttk-mcp.                                                    *)
(*                                                                         *)
(* SpecAuth  : the OAuth2 token flow of internal/googleapi/client.go       *)
(*             (getClient, getTokenFromWeb, getTokenFromWebManual,         *)
(*             tokenFromFile, saveToken) with the callback-server handler  *)
(*             goroutines that share the code channel.                     *)
(* SpecTools : the MCP tool handlers of pkg/calendarmcp, pkg/gmailmcp and  *)
(*             pkg/obsidianmcp, one action per handler invocation.         *)
(* SpecClients : the API clients under the handlers: the requests the      *)
(*             Obsidian client sends and the Events.List call of the       *)
(*             calendar client.                                            *)
(* SpecMain  : the main programs calendarmcp, gmailmcp and obsidianmcp,    *)
(*             from flag.Parse to the end of the process, with the signal  *)
(*             goroutine of serveStdio; SpecMainFair adds the scheduling.  *)
(* SpecPaths : the URLs of the VaultService requests (obsidian.NewClient,   *)
(*             url.ResolveReference) and the file paths of config.Load.    *)
(***************************************************************************)
EXTENDS Integers, Sequences, FiniteSets, TLC

VARIABLES
    \* ---- OAuth2 flow -------------------------------------------------
    pc,         \* position of the goroutine running getClient
    file,       \* content of the token file at tokenPath
    tok,        \* getClient's local tok (*oauth2.Token)
    newTok,     \* getClient's local newTok
    client,     \* the *http.Client getClient returned, with its token
    listener,   \* the 127.0.0.1 listener l: "none", "open", "closed"
    authCode,   \* the local authCode of getTokenFromWeb(/Manual)
    codeFrom,   \* where authCode was read from: "none", "callback", "stdin"
    hstate,     \* per callback request: "idle", "blocked" (at codeCh <-), "done"
    hreq,       \* per callback request: its query parameters
    events,     \* what this getClient call has executed so far, in order
    ncalls,     \* number of program runs that called getClient
    \* ---- tool handlers -----------------------------------------------
    config,     \* config["calendars"], the allowlist
    request,    \* the last mcp.CallToolRequest handled
    result,     \* the *mcp.CallToolResult and error returned for it
    calls,      \* the backend API calls the handler made, in order
    backend,    \* what the backend answered to those calls
    \* ---- API clients -------------------------------------------------
    token,      \* Client.token, as passed to obsidian.NewClient
    given,      \* the *http.Request last handed to Client.do
    wire,       \* that request as c.http.Do received it
    listArgs,   \* the arguments of the last calendar Client.ListEvents
    listCall,   \* the Events.List call it built
    \* ---- main programs ----------------------------------------------
    prog,       \* the program run: "calendarmcp", "gmailmcp", "obsidianmcp"
    argv,       \* flag.Args(), the positional arguments
    mpc,        \* position of the main goroutine
    mode,       \* the branch main took on flag.Arg(0)
    conf,       \* the *config.Config cfg: "nil" or "loaded"
    paths,      \* the paths given to NewClient: <<credentials, token>>
    did,        \* what the run has done so far
    exit,       \* the exit status, once mpc = "exited"
    tools,      \* cfg.MCP.Tools as pairs <<name, enabled>>
    pending,    \* keys of toolRegistry the range loop has not visited yet
    registered, \* names of the tools added to the MCP server
    ctx,        \* the listen context: "none", "live", "cancelled"
    sigChan,    \* number of signals buffered in sigChan (capacity 1)
    signals,    \* number of SIGINT/SIGTERM received by the process
    gpc,        \* position of the signal goroutine
    \* ---- URLs and file paths ----------------------------------------
    baseURL,    \* the path of Client.baseURL, split at "/"
    vaultArg,   \* the path argument of the VaultService calls, split at "/"
    vaultURL,   \* the last VaultService request: method and URL path
    confIn,     \* the configuration file config.Load last read
    confOut     \* the *Config it returned

authVars == <<pc, file, tok, newTok, client, listener, authCode, codeFrom,
              hstate, hreq, events, ncalls>>
toolVars == <<config, request, result, calls, backend>>
clientVars == <<token, given, wire, listArgs, listCall>>
mainVars ==
    <<prog, argv, mpc, mode, conf, paths, did, exit, tools, pending, registered,
      ctx, sigChan, signals, gpc>>
pathVars == <<baseURL, vaultArg, vaultURL, confIn, confOut>>
vars == <<authVars, toolVars, clientVars, mainVars, pathVars>>

(***************************************************************************)
(* Bounds of the model.                                                    *)
(***************************************************************************)
MaxRequests == 2
MaxCalls == 2

(***************************************************************************)
(* ======================  OAuth2 token flow  ===========================  *)
(***************************************************************************)
AccessTokens == {"at1", "at2"}
RefreshTokens == {"", "rt1"}
Expiries == {"zero", "past", "future"}

\* A *oauth2.Token: nil, or a pointer to a token. raw is the unexported
\* field holding the server's response; it is not serialised.
NilToken ==
    [ptr |-> "nil", AccessToken |-> "", RefreshToken |-> "", Expiry |-> "zero", raw |-> FALSE]

Token(a, r, e, raw) ==
    [ptr |-> "tok", AccessToken |-> a, RefreshToken |-> r, Expiry |-> e, raw |-> raw]

\* Content of the token file.
FileAbsent == [kind |-> "absent", access_token |-> "", refresh_token |-> "", expiry |-> "zero"]
FileGarbage == [kind |-> "garbage", access_token |-> "", refresh_token |-> "", expiry |-> "zero"]
FileNull == [kind |-> "null", access_token |-> "", refresh_token |-> "", expiry |-> "zero"]
FileObject(a, r, e) == [kind |-> "object", access_token |-> a, refresh_token |-> r, expiry |-> e]

\* json.NewEncoder(f).Encode(token): a nil pointer encodes as null, a token
\* as an object of its exported fields.
Encode(t) ==
    IF t.ptr = "nil" THEN FileNull
    ELSE FileObject(t.AccessToken, t.RefreshToken, t.Expiry)

\* tokenFromFile: os.Open fails on an absent file, Decode fails on a file
\* that is not JSON; JSON null leaves the zero Token untouched.
TokenFromFileErr(f) == f.kind \in {"absent", "garbage"}

TokenFromFile(f) ==
    IF f.kind = "object" THEN Token(f.access_token, f.refresh_token, f.expiry, FALSE)
    ELSE Token("", "", "zero", FALSE)

\* oauth2.Token.Valid
Valid(t) == t.ptr = "tok" /\ t.AccessToken # "" /\ t.Expiry # "past"

\* src.Token() of config.TokenSource(ctx, tok): a valid token is reused; an
\* invalid one without refresh token is an error; otherwise the refresh
\* request fails or yields a new token (which keeps the old refresh token
\* when the server sends none).
TokenSourceOutcomes(t) ==
    IF Valid(t) THEN {[err |-> FALSE, tok |-> t]}
    ELSE IF t.RefreshToken = "" THEN {[err |-> TRUE, tok |-> NilToken]}
    ELSE {[err |-> TRUE, tok |-> NilToken]}
         \cup {[err |-> FALSE,
                tok |-> Token(a, IF r = "" THEN t.RefreshToken ELSE r, "future", TRUE)] :
               a \in AccessTokens \cup {t.AccessToken}, r \in RefreshTokens}

\* config.Exchange(ctx, authCode)
ExchangeOutcomes ==
    {[err |-> TRUE, tok |-> NilToken]}
    \cup {[err |-> FALSE, tok |-> Token(a, r, "future", TRUE)] :
          a \in AccessTokens, r \in RefreshTokens}

\* saveToken(path, token): os.Create may fail (the file is left as it was)
\* and Encode may fail after the file was truncated; both are only printed.
SaveOutcomes == {"ok", "create_fail", "write_fail"}

SaveToken(f, t, outcome) ==
    CASE outcome = "ok" -> Encode(t)
      [] outcome = "create_fail" -> f
      [] OTHER -> FileGarbage

SaveEvent(outcome) == IF outcome = "ok" THEN "save_ok" ELSE "save_fail"

Handlers == 1..MaxRequests
Codes == {"", "code1"}
States == {"state-token", "other"}
NoRequest == [code |-> "", state |-> ""]
NoClient == [built |-> FALSE, token |-> NilToken]

InitialFiles ==
    {FileAbsent, FileGarbage, FileNull}
    \cup {FileObject(a, r, e) : a \in {"", "at1"}, r \in RefreshTokens, e \in Expiries}

ToolsIdle ==
    /\ config = <<>>
    /\ request = [tool |-> "none", isMap |-> FALSE, args |-> <<>>]
    /\ result = [kind |-> "none", isError |-> FALSE, text |-> <<>>, data |-> <<>>, err |-> "nil"]
    /\ calls = <<>>
    /\ backend = [fail |-> FALSE, marshalFail |-> FALSE, value |-> <<>>]

\* The headers an *http.Request of the Obsidian client can carry; a header
\* holds a list of values, a value the pieces it is concatenated from.
HeaderNames == {"Authorization", "Accept", "Content-Type", "Operation", "Target-Type", "Target"}
NoHeader == [h \in HeaderNames |-> <<>>]
NoHTTPRequest == [service |-> "none", method |-> "", verb |-> "", Header |-> NoHeader]
NoListArgs ==
    [calendarID |-> "", maxResults |-> 0,
     timeMin |-> [layout |-> "empty", year |-> 0, month |-> 0, day |-> 0, hour |-> 0,
                  frac |-> FALSE, zone |-> ""],
     timeMax |-> [layout |-> "empty", year |-> 0, month |-> 0, day |-> 0, hour |-> 0,
                  frac |-> FALSE, zone |-> ""],
     now |-> [year |-> 0, month |-> 0, day |-> 0, hour |-> 0, frac |-> FALSE, offset |-> 0]]
NoListCall == [built |-> FALSE]

\* No program has been started.
MainIdle ==
    /\ prog = ""
    /\ argv = <<>>
    /\ mpc = "exited"
    /\ mode = ""
    /\ conf = "nil"
    /\ paths = <<>>
    /\ did = {}
    /\ exit = 0
    /\ tools = {}
    /\ pending = {}
    /\ registered = {}
    /\ ctx = "none"
    /\ sigChan = 0
    /\ signals = 0
    /\ gpc = "none"

\* No URL has been built and no configuration loaded.
PathsIdle ==
    /\ baseURL = <<"", "">>
    /\ vaultArg = <<>>
    /\ vaultURL = <<>>
    /\ confIn = <<>>
    /\ confOut = <<>>

\* No client has been used yet.
ClientsIdle ==
    /\ token = ""
    /\ given = NoHTTPRequest
    /\ wire = NoHTTPRequest
    /\ listArgs = NoListArgs
    /\ listCall = NoListCall

InitAuth ==
    /\ pc = "start"
    /\ file \in InitialFiles
    /\ tok = NilToken
    /\ newTok = NilToken
    /\ client = NoClient
    /\ listener = "none"
    /\ authCode = ""
    /\ codeFrom = "none"
    /\ hstate = [h \in Handlers |-> "idle"]
    /\ hreq = [h \in Handlers |-> NoRequest]
    /\ events = <<>>
    /\ ncalls = 1
    /\ ToolsIdle
    /\ ClientsIdle
    /\ MainIdle
    /\ PathsIdle

\* getClient, lines 37-42: load the stored token, or start the web flow.
LoadToken ==
    /\ pc = "start"
    /\ IF TokenFromFileErr(file)
       THEN /\ pc' = "web"
            /\ events' = Append(events, "load_err")
            /\ tok' = tok
       ELSE /\ pc' = "haveTok"
            /\ events' = Append(events, "load_ok")
            /\ tok' = TokenFromFile(file)
    /\ UNCHANGED <<file, newTok, client, listener, authCode, codeFrom, hstate, hreq, ncalls>>
    /\ UNCHANGED <<toolVars, clientVars, mainVars, pathVars>>

AfterTokenSourceIgnoringError(err) == "refreshed"

\* Where getClient goes after src.Token().
AfterTokenSource(err) == IF err THEN "web" ELSE "refreshed"

\* What src.Token() returned, for the record: an error, a token, and whether
\* that token carries another access token than the stored one.
SourceEvents(o, t) ==
    IF o.err THEN <<"src_err">>
    ELSE IF o.tok.AccessToken # t.AccessToken THEN <<"src_ok", "new_token">>
    ELSE <<"src_ok">>

\* getClient, lines 45-53: ask the token source of the stored token.
RefreshToken ==
    /\ pc = "haveTok"
    /\ \E o \in TokenSourceOutcomes(tok) :
        /\ pc' = AfterTokenSource(o.err)
        /\ newTok' = o.tok
        /\ events' = events \o SourceEvents(o, tok)
    /\ UNCHANGED <<file, tok, client, listener, authCode, codeFrom, hstate, hreq, ncalls>>
    /\ UNCHANGED <<toolVars, clientVars, mainVars, pathVars>>

TokenRefreshedOrRenewed(n, t) == n # t

TokenRefreshedByRefreshToken(n, t) == n.RefreshToken # t.RefreshToken

\* getClient, line 56: was the token refreshed?
TokenRefreshed(n, t) == n.AccessToken # t.AccessToken

\* getClient, lines 55-59: save a refreshed token.
SaveRefreshed ==
    /\ pc = "refreshed"
    /\ IF TokenRefreshed(newTok, tok)
       THEN \E o \in SaveOutcomes :
                /\ file' = SaveToken(file, newTok, o)
                /\ events' = Append(events, SaveEvent(o))
                /\ tok' = newTok
       ELSE UNCHANGED <<file, events, tok>>
    /\ pc' = "client"
    /\ UNCHANGED <<newTok, client, listener, authCode, codeFrom, hstate, hreq, ncalls>>
    /\ UNCHANGED <<toolVars, clientVars, mainVars, pathVars>>

\* getTokenFromWeb, lines 66-96: net.Listen, then the server goroutine; on
\* failure the manual flow.
Listen ==
    /\ pc = "web"
    /\ \E ok \in BOOLEAN :
        IF ok
        THEN /\ listener' = "open"
             /\ pc' = "browser"
             /\ events' = events \o <<"web", "listen_ok">>
        ELSE /\ listener' = listener
             /\ pc' = "manual"
             /\ events' = events \o <<"web", "listen_fail">>
    /\ UNCHANGED <<file, tok, newTok, client, authCode, codeFrom, hstate, hreq, ncalls>>
    /\ UNCHANGED <<toolVars, clientVars, mainVars, pathVars>>

AfterBrowserFallingBack(ok) == IF ok THEN "waiting" ELSE "manual"

\* Where getTokenFromWeb goes after openBrowser.
AfterBrowser(ok) == "waiting"

\* getTokenFromWeb, lines 98-104: openBrowser; a failure is only printed.
OpenBrowser ==
    /\ pc = "browser"
    /\ \E ok \in BOOLEAN :
        /\ pc' = AfterBrowser(ok)
        /\ events' = Append(events, IF ok THEN "browser_ok" ELSE "browser_fail")
    /\ UNCHANGED <<file, tok, newTok, client, listener, authCode, codeFrom, hstate, hreq, ncalls>>
    /\ UNCHANGED <<toolVars, clientVars, mainVars, pathVars>>

\* The server's handler, lines 79-88: a request reaches the callback server;
\* net/http serves it in a goroutine of its own, which writes the response
\* and sends on codeCh ("blocked": started, and at or on its way to the
\* send).  Requests are numbered in the order in which they arrive; which
\* of the goroutines in flight the receive takes is up to the scheduler.
HandleRequest(h) ==
    /\ listener = "open"
    /\ hstate[h] = "idle"
    /\ \A k \in Handlers : k < h => hstate[k] # "idle"
    /\ \E c \in Codes, s \in States :
        hreq' = [hreq EXCEPT ![h] = [code |-> c, state |-> s]]
    /\ hstate' = [hstate EXCEPT ![h] = "blocked"]
    /\ UNCHANGED <<pc, file, tok, newTok, client, listener, authCode, codeFrom, events, ncalls>>
    /\ UNCHANGED <<toolVars, clientVars, mainVars, pathVars>>

ReceiveCodeAfterTimeout ==
    /\ pc = "waiting"
    /\ authCode' = ""
    /\ codeFrom' = "callback"
    /\ tok' = NilToken
    /\ listener' = "closed"
    /\ pc' = "save"
    /\ events' = Append(events, "recv_empty")
    /\ UNCHANGED <<file, newTok, client, hstate, hreq, ncalls>>
    /\ UNCHANGED <<toolVars, clientVars, mainVars, pathVars>>

\* getTokenFromWeb, lines 107-111: receive one value from codeCh, which
\* releases the handler that sent it; an empty code returns nil (and the
\* deferred l.Close() runs).
ReceiveCode ==
    /\ pc = "waiting"
    /\ \E h \in Handlers :
        /\ hstate[h] = "blocked"
        /\ hstate' = [hstate EXCEPT ![h] = "done"]
        /\ authCode' = hreq[h].code
        /\ codeFrom' = "callback"
        /\ IF hreq[h].code = ""
           THEN /\ tok' = NilToken
                /\ listener' = "closed"
                /\ pc' = "save"
                /\ events' = Append(events, "recv_empty")
           ELSE /\ tok' = tok
                /\ listener' = listener
                /\ pc' = "exchange"
                /\ events' = Append(events, "recv_code")
    /\ UNCHANGED <<file, newTok, client, hreq, ncalls>>
    /\ UNCHANGED <<toolVars, clientVars, mainVars, pathVars>>

\* getTokenFromWeb, lines 113-118: exchange the code, return (l.Close()).
Exchange ==
    /\ pc = "exchange"
    /\ \E o \in ExchangeOutcomes :
        /\ tok' = o.tok
        /\ events' = Append(events, IF o.err THEN "exchange_fail" ELSE "exchange_ok")
    /\ listener' = "closed"
    /\ pc' = "save"
    /\ UNCHANGED <<file, newTok, client, authCode, codeFrom, hstate, hreq, ncalls>>
    /\ UNCHANGED <<toolVars, clientVars, mainVars, pathVars>>

\* getTokenFromWebManual, lines 122-129: read the code from standard input.
ScanCode ==
    /\ pc = "manual"
    /\ \E ok \in BOOLEAN :
        IF ok
        THEN /\ \E c \in Codes \ {""} : authCode' = c
             /\ codeFrom' = "stdin"
             /\ tok' = tok
             /\ pc' = "exchangeManual"
             /\ events' = Append(events, "scan_ok")
        ELSE /\ authCode' = authCode
             /\ codeFrom' = "stdin"
             /\ tok' = NilToken
             /\ pc' = "save"
             /\ events' = Append(events, "scan_fail")
    /\ UNCHANGED <<file, newTok, client, listener, hstate, hreq, ncalls>>
    /\ UNCHANGED <<toolVars, clientVars, mainVars, pathVars>>

\* getTokenFromWebManual, lines 131-136.
ExchangeManual ==
    /\ pc = "exchangeManual"
    /\ \E o \in ExchangeOutcomes :
        /\ tok' = o.tok
        /\ events' = Append(events, IF o.err THEN "exchange_fail" ELSE "exchange_ok")
    /\ pc' = "save"
    /\ UNCHANGED <<file, newTok, client, listener, authCode, codeFrom, hstate, hreq, ncalls>>
    /\ UNCHANGED <<toolVars, clientVars, mainVars, pathVars>>

\* getClient, lines 40 and 51: saveToken(tokenPath, tok) after the web flow.
SaveWeb ==
    /\ pc = "save"
    /\ \E o \in SaveOutcomes :
        /\ file' = SaveToken(file, tok, o)
        /\ events' = Append(events, SaveEvent(o))
    /\ pc' = "client"
    /\ UNCHANGED <<tok, newTok, client, listener, authCode, codeFrom, hstate, hreq, ncalls>>
    /\ UNCHANGED <<toolVars, clientVars, mainVars, pathVars>>

\* getClient, lines 41, 52 and 60: return config.Client(ctx, tok).
MakeClient ==
    /\ pc = "client"
    /\ client' = [built |-> TRUE, token |-> tok]
    /\ events' = Append(events, "client")
    /\ pc' = "done"
    /\ UNCHANGED <<file, tok, newTok, listener, authCode, codeFrom, hstate, hreq, ncalls>>
    /\ UNCHANGED <<toolVars, clientVars, mainVars, pathVars>>

\* The program is run again: a new process calls getClient on the token
\* file the previous run left.
Rerun ==
    /\ pc = "done"
    /\ ncalls < MaxCalls
    /\ ncalls' = ncalls + 1
    /\ pc' = "start"
    /\ tok' = NilToken
    /\ newTok' = NilToken
    /\ client' = NoClient
    /\ listener' = "none"
    /\ authCode' = ""
    /\ codeFrom' = "none"
    /\ hstate' = [h \in Handlers |-> "idle"]
    /\ hreq' = [h \in Handlers |-> NoRequest]
    /\ events' = <<>>
    /\ UNCHANGED file
    /\ UNCHANGED <<toolVars, clientVars, mainVars, pathVars>>

NextAuth ==
    \/ LoadToken
    \/ RefreshToken
    \/ SaveRefreshed
    \/ Listen
    \/ OpenBrowser
    \/ \E h \in Handlers : HandleRequest(h)
    \/ ReceiveCode
    \/ Exchange
    \/ ScanCode
    \/ ExchangeManual
    \/ SaveWeb
    \/ MakeClient
    \/ Rerun

SpecAuth == InitAuth /\ [][NextAuth]_vars

\* ---- helpers over the event log ----
Has(e) == \E i \in 1..Len(events) : events[i] = e
Count(e) == Cardinality({i \in 1..Len(events) : events[i] = e})
Before(e1, e2) ==
    \A j \in 1..Len(events) : events[j] = e2 => \E i \in 1..(j - 1) : events[i] = e1

Saved == Has("save_ok") \/ Has("save_fail")
Scanned == Has("scan_ok") \/ Has("scan_fail")
NeedsReauth == Has("load_err") \/ Has("src_err")
WebReturned == pc \in {"save", "client", "done"} /\ Has("web")

(***************************************************************************)
(* Claims about the OAuth2 flow.                                           *)
(***************************************************************************)

\* C1 (as claimed): whenever getClient has returned a client, the client is
\* backed by a valid, non-nil token, on every path.
C1_ClientTokenValid ==
    client.built => (client.token.ptr = "tok" /\ Valid(client.token))

\* C2: the web flow is started if and only if the token file could not be
\* loaded or the token source returned an error, and at most once per call;
\* on the silent path no listener is opened, no browser is launched and no
\* code is awaited or read.
C2_SilentRefreshOrReauth ==
    /\ Count("web") <= 1
    /\ Has("web") => NeedsReauth
    /\ (pc = "done" /\ NeedsReauth) => Has("web")
    /\ (Has("load_ok") /\ Has("src_ok")) =>
          /\ listener = "none"
          /\ codeFrom = "none"
          /\ \A i \in 1..Len(events) :
                events[i] \in {"load_ok", "src_ok", "new_token", "save_ok", "save_fail", "client"}

C2_Witness ==
    /\ pc = "done"
    /\ Has("load_ok")
    /\ Has("src_err")
    /\ Has("web")
    /\ client.built

C4_ManualOnlyWithoutListener ==
    /\ Scanned => Has("listen_fail")
    /\ (Has("listen_fail") /\ pc \in {"exchangeManual", "save", "client", "done"}) => Scanned
    /\ Has("listen_ok") =>
          /\ ~Scanned
          /\ codeFrom # "stdin"
          /\ pc \notin {"manual", "exchangeManual"}
    /\ (Has("listen_ok") /\ pc \in {"exchange", "save", "client", "done"}) =>
          codeFrom = "callback"

C4_Witness ==
    /\ pc = "done"
    /\ Has("listen_ok")
    /\ Has("browser_fail")
    /\ Has("exchange_ok")
    /\ codeFrom = "callback"

\* C5 (as claimed): every send of a handler on the code channel is
\* received: once getTokenFromWeb has returned, no handler goroutine is
\* blocked on the channel.
C5_NoHandlerLeftBlocked ==
    listener = "closed" => \A h \in Handlers : hstate[h] # "blocked"

\* The callback requests whose code getTokenFromWeb has received.
Received == {h \in Handlers : hstate[h] = "done"}
Exchanges == Count("exchange_ok") + Count("exchange_fail")

\* C21 as claimed: the request that decides the outcome of getTokenFromWeb
\* is the first callback request that arrived.
C21_FirstRequestDecides ==
    Has("listen_ok") => Received \subseteq {1}

\* C21: with the listener up, getTokenFromWeb goes on only by receiving the
\* code of a callback request, and of one only; that request decides the
\* outcome whatever its state parameter is: a non-empty code is exchanged
\* exactly once, an empty code returns no token without any exchange, also
\* when another request carries a code; no exchange happens before a code
\* was received.  The request received is the first one when no other
\* request is in flight with it.
C21_ReceivedRequestDecides ==
    Has("listen_ok") =>
        /\ pc \in {"browser", "waiting"} => (Received = {} /\ Exchanges = 0)
        /\ (pc = "waiting" /\ \A h \in Handlers : hstate[h] # "blocked") => ~ENABLED ReceiveCode
        /\ pc \in {"exchange", "save", "client", "done"} =>
               /\ Cardinality(Received) = 1
               /\ \A h \in Received : authCode = hreq[h].code
               /\ hstate[1] # "idle"
               /\ (\A h \in Handlers : h > 1 => hstate[h] = "idle") => Received = {1}
        /\ pc = "exchange" => (authCode # "" /\ Exchanges = 0)
        /\ pc \in {"save", "client", "done"} =>
               /\ Exchanges = (IF authCode # "" THEN 1 ELSE 0)
               /\ authCode = "" => tok = NilToken
               /\ Has("exchange_ok") <=> tok # NilToken

C21_Witness ==
    /\ pc = "done"
    /\ Has("listen_ok")
    /\ hstate[1] = "done"
    /\ hreq[1] = [code |-> "", state |-> "other"]
    /\ hstate[2] = "blocked"
    /\ hreq[2] = [code |-> "code1", state |-> "state-token"]
    /\ client.token = NilToken
    /\ Exchanges = 0

\* C22: a stored token that loads and whose token source returns a token
\* with the same access token is used as it is and nothing is written;
\* saveToken runs only after a token with another access token was
\* returned or after the web flow, and the file changes only in saveToken.
C22_FileWrittenOnlyForNewToken ==
    /\ [](/\ (Has("save_ok") \/ Has("save_fail")) => (Has("new_token") \/ Has("web"))
          /\ (pc = "done" /\ Has("src_ok") /\ ~Has("new_token")) =>
                 /\ Has("load_ok")
                 /\ ~Has("save_ok") /\ ~Has("save_fail") /\ ~Has("web")
                 /\ ~TokenFromFileErr(file)
                 /\ client.token = TokenFromFile(file)
                 /\ client.token.AccessToken = newTok.AccessToken)
    /\ [][file' # file =>
              \/ pc = "save"
              \/ (pc = "refreshed" /\ newTok.AccessToken # tok.AccessToken)]_vars

\* The token source renewed the token under the same access token: the
\* stored, expired token is kept and used.
C22_Witness ==
    /\ pc = "done"
    /\ Has("src_ok")
    /\ ~Has("new_token")
    /\ newTok.Expiry = "future"
    /\ client.token.Expiry = "past"
    /\ file = Encode(client.token)

(***************************************************************************)
(* ========================  MCP tool handlers  ========================== *)
(***************************************************************************)

\* ---- argument values: the dynamic Go type t and the value v ------------
Absent == [t |-> "absent", v |-> ""]
Str(x) == [t |-> "string", v |-> x]
Num(whole, frac) == [t |-> "number", v |-> [whole |-> whole, frac |-> frac]]
List(xs) == [t |-> "list", v |-> xs]

\* val, ok := args[key].(string)
IsString(a) == a.t = "string"

Int64RoundingUp(n) == IF n.frac THEN n.whole + 1 ELSE n.whole

\* int64(val) of a float64 argument: the fraction is cut off.
Int64(n) == n.whole

\* ---- date and time strings ----------------------------------------------
\* A string that is meant to hold a date or a time, by its lexical layout
\* and the numbers written in it. frac: the seconds carry a fraction;
\* zone: "Z" or a numeric offset.
EmptyTime ==
    [layout |-> "empty", year |-> 0, month |-> 0, day |-> 0, hour |-> 0, frac |-> FALSE, zone |-> ""]
DateStr(y, m, d) ==
    [layout |-> "date", year |-> y, month |-> m, day |-> d, hour |-> 0, frac |-> FALSE, zone |-> ""]
DateTimeStr(y, m, d, h, f, z) ==
    [layout |-> "rfc3339", year |-> y, month |-> m, day |-> d, hour |-> h, frac |-> f, zone |-> z]
OtherTime ==
    [layout |-> "other", year |-> 0, month |-> 0, day |-> 0, hour |-> 0, frac |-> FALSE, zone |-> ""]

IsLeap(y) == (y % 4 = 0 /\ y % 100 # 0) \/ y % 400 = 0

DaysIn(m, y) ==
    IF m = 2 THEN (IF IsLeap(y) THEN 29 ELSE 28)
    ELSE IF m \in {4, 6, 9, 11} THEN 30 ELSE 31

DateInRange(s) ==
    /\ s.month \in 1..12
    /\ s.day \in 1..DaysIn(s.month, s.year)

ZoneOffset(z) == IF z \in {"Z", "+00:00"} THEN 0 ELSE 2

\* time.Parse(layout, val): the string has the layout and its numbers are
\* in range; the value is the parsed time (fractions of a second are kept
\* in the time, the zone as its offset in hours).
ParseOk(layout, s) ==
    /\ s.layout = layout
    /\ DateInRange(s)
    /\ s.hour \in 0..23

ParseTime(s) ==
    [year |-> s.year, month |-> s.month, day |-> s.day, hour |-> s.hour,
     frac |-> s.frac, offset |-> ZoneOffset(s.zone)]

\* t.Format("2006-01-02") and t.Format(time.RFC3339)
FormatDate(t) == DateStr(t.year, t.month, t.day)
FormatRFC3339(t) ==
    DateTimeStr(t.year, t.month, t.day, t.hour, FALSE,
                IF t.offset = 0 THEN "Z" ELSE "+02:00")

\* ---- googleCalendar.EventDateTime and Event ----------------------------
NilDateTime == [ptr |-> "nil", Date |-> EmptyTime, DateTime |-> EmptyTime]
EventDateTime(date, dateTime) == [ptr |-> "set", Date |-> date, DateTime |-> dateTime]

ParseEventDateTimeLenient(val) ==
    IF ParseOk("date", val)
    THEN [err |-> FALSE, value |-> EventDateTime(FormatDate(ParseTime(val)), EmptyTime)]
    ELSE IF ParseOk("rfc3339", val)
    THEN [err |-> FALSE, value |-> EventDateTime(EmptyTime, FormatRFC3339(ParseTime(val)))]
    ELSE [err |-> FALSE, value |-> NilDateTime]

ParseEventDateTimeDateOnly(val) ==
    IF ParseOk("date", val)
    THEN [err |-> FALSE, value |-> EventDateTime(FormatDate(ParseTime(val)), EmptyTime)]
    ELSE IF ParseOk("rfc3339", val)
    THEN [err |-> FALSE,
          value |-> EventDateTime(FormatDate(ParseTime(val)), FormatRFC3339(ParseTime(val)))]
    ELSE [err |-> TRUE, value |-> NilDateTime]

\* parseEventDateTime
ParseEventDateTime(val) ==
    IF ParseOk("date", val)
    THEN [err |-> FALSE, value |-> EventDateTime(FormatDate(ParseTime(val)), EmptyTime)]
    ELSE IF ParseOk("rfc3339", val)
    THEN [err |-> FALSE, value |-> EventDateTime(EmptyTime, FormatRFC3339(ParseTime(val)))]
    ELSE [err |-> TRUE, value |-> NilDateTime]

\* ---- recurrence ----------------------------------------------------------
\* A recurrence string: whether it starts with '[' and, if so, whether it
\* is a JSON array of strings, with the rules written in it.
RecString(bracket, valid, rules) == [bracket |-> bracket, valid |-> valid, rules |-> rules]
EmptyRec == RecString(FALSE, FALSE, <<>>)

RECURSIVE OnlyStrings(_)
OnlyStrings(xs) ==
    IF xs = <<>> THEN <<>>
    ELSE IF IsString(Head(xs)) THEN <<Head(xs).v>> \o OnlyStrings(Tail(xs))
    ELSE OnlyStrings(Tail(xs))

ParseRecurrenceNeverNil(arg) ==
    IF IsString(arg) /\ arg.v # EmptyRec
    THEN IF arg.v.bracket /\ ~arg.v.valid
         THEN [err |-> TRUE, isNil |-> TRUE, rules |-> <<>>]
         ELSE [err |-> FALSE, isNil |-> FALSE, rules |-> arg.v.rules]
    ELSE IF arg.t = "list"
    THEN [err |-> FALSE, isNil |-> FALSE, rules |-> OnlyStrings(arg.v)]
    ELSE [err |-> FALSE, isNil |-> FALSE, rules |-> <<>>]

\* parseRecurrence: (recurrence, err); isNil tells a nil slice from a list.
ParseRecurrence(arg) ==
    IF IsString(arg) /\ arg.v # EmptyRec
    THEN IF arg.v.bracket
         THEN IF arg.v.valid
              THEN [err |-> FALSE, isNil |-> FALSE, rules |-> arg.v.rules]
              ELSE [err |-> TRUE, isNil |-> TRUE, rules |-> <<>>]
         ELSE [err |-> FALSE, isNil |-> FALSE, rules |-> arg.v.rules]
    ELSE IF arg.t = "list"
    THEN [err |-> FALSE, isNil |-> OnlyStrings(arg.v) = <<>>, rules |-> OnlyStrings(arg.v)]
    ELSE [err |-> FALSE, isNil |-> TRUE, rules |-> <<>>]

\* googleCalendar.Event, with the fields the handlers set.
Event(summary, description, location, start, end, recurrence) ==
    [Summary |-> summary, Description |-> description, Location |-> location,
     Start |-> start, End |-> end, Recurrence |-> recurrence]

\* ---- results and backend calls -----------------------------------------
\* mcp.NewToolResultError(text...), mcp.NewToolResultText(text...): the text
\* is kept as the pieces it is formatted from; data is what was marshalled
\* into it. err is the Go error returned beside the result.
ToolErrorAsGoError(text) ==
    [kind |-> "error", isError |-> FALSE, text |-> <<>>, data |-> <<>>, err |-> text]

ToolError(text) == [kind |-> "result", isError |-> TRUE, text |-> text, data |-> <<>>, err |-> "nil"]
ToolText(text, data) == [kind |-> "result", isError |-> FALSE, text |-> text, data |-> data, err |-> "nil"]
NoResult == [kind |-> "none", isError |-> FALSE, text |-> <<>>, data |-> <<>>, err |-> "nil"]

Call(op, calendarID, args) == [op |-> op, calendarID |-> calendarID, args |-> args]
Out(res, cs) == [result |-> res, calls |-> cs]

\* Whether the pieces of text contain the pieces of part, in a row.
Contains(text, part) ==
    \E i \in 0..(Len(text) - Len(part)) :
        \A j \in 1..Len(part) : text[i + j] = part[j]

\* ---- the calendar allowlist ---------------------------------------------
ErrAccessDenied == "access to calendar is not allowed by configuration"
defaultCalendarID == "primary"

IsCalendarAllowedAlways(calendarID, allowedCalendars) == TRUE

\* isCalendarAllowed
IsCalendarAllowed(calendarID, allowedCalendars) ==
    \/ Len(allowedCalendars) = 0
    \/ \E i \in 1..Len(allowedCalendars) : allowedCalendars[i] = calendarID

\* checkCalendarAccess: nil, or the error "<ErrAccessDenied>: <calendarID>"
CheckCalendarAccess(calendarID, cfg) ==
    IF ~IsCalendarAllowed(calendarID, cfg)
    THEN [err |-> TRUE, text |-> <<ErrAccessDenied, ": ", calendarID>>]
    ELSE [err |-> FALSE, text |-> <<>>]

\* calendarID := defaultCalendarID; if val, ok := args["calendar"].(string);
\* ok && val != "" { calendarID = val }
CalendarIDOf(args) ==
    IF IsString(args.calendar) /\ args.calendar.v # "" THEN args.calendar.v
    ELSE defaultCalendarID

RECURSIVE FilterCalendarsReversed(_, _)
FilterCalendarsReversed(calendarList, allowedCalendars) ==
    IF calendarList = <<>> THEN <<>>
    ELSE IF Len(allowedCalendars) > 0
            /\ \A i \in 1..Len(allowedCalendars) : allowedCalendars[i] # Head(calendarList).Id
    THEN FilterCalendarsReversed(Tail(calendarList), allowedCalendars)
    ELSE FilterCalendarsReversed(Tail(calendarList), allowedCalendars) \o <<Head(calendarList)>>

\* The loop of CalendarListHandler over the backend's list.
RECURSIVE FilterCalendars(_, _)
FilterCalendars(calendarList, allowedCalendars) ==
    IF calendarList = <<>> THEN <<>>
    ELSE IF ~IsCalendarAllowed(Head(calendarList).Id, allowedCalendars)
    THEN FilterCalendars(Tail(calendarList), allowedCalendars)
    ELSE <<Head(calendarList)>> \o FilterCalendars(Tail(calendarList), allowedCalendars)

\* ---- what the model feeds the handlers ------------------------------------
MaxAllowed == 2
MaxCalendars == 2

ListedIDs == {"primary", "work"}
CalendarIDs == ListedIDs \cup {"blocked"}

SeqsUpTo(S, n) == UNION {[1..k -> S] : k \in 0..n}

\* The configured lists: calendar IDs, each listed once.
Allowlists ==
    {l \in SeqsUpTo(ListedIDs, MaxAllowed) : \A i, j \in 1..Len(l) : l[i] = l[j] => i = j}
CalendarLists == SeqsUpTo({[Id |-> id] : id \in CalendarIDs}, MaxCalendars)

CalendarArgs == {Absent, Num(1, FALSE), Str(""), Str("work"), Str("blocked")}
TextArgs(x) == {Absent, Str(x)}
RequiredArgs(x) == {Absent, Num(1, FALSE), Str(x)}

ValidTimes ==
    {DateStr(2024, 2, 29),
     DateTimeStr(2024, 2, 29, 10, FALSE, "Z"),
     DateTimeStr(2024, 2, 29, 10, TRUE, "+00:00"),
     DateTimeStr(2024, 4, 30, 23, FALSE, "+02:00")}
InvalidTimes ==
    {DateStr(2023, 2, 29),
     DateTimeStr(2024, 4, 31, 10, FALSE, "Z"),
     DateTimeStr(2024, 2, 29, 24, FALSE, "Z"),
     OtherTime}
StartTimeArgs == {Absent, Num(1, FALSE)} \cup {Str(s) : s \in ValidTimes \cup InvalidTimes \cup {EmptyTime}}
EndTimeArgs ==
    {Absent, Str(EmptyTime), Str(DateStr(2024, 2, 29)), Str(DateStr(2024, 13, 1)),
     Str(DateTimeStr(2024, 4, 30, 23, FALSE, "+02:00"))}
RecurrenceArgs ==
    {Absent,
     Str(EmptyRec),
     Str(RecString(FALSE, FALSE, <<"RRULE:FREQ=DAILY">>)),
     Str(RecString(TRUE, TRUE, <<"RRULE:FREQ=DAILY", "EXDATE:20240301">>)),
     Str(RecString(TRUE, FALSE, <<>>)),
     List(<<Str("RRULE:FREQ=WEEKLY"), Num(1, FALSE)>>)}

\* What the backend and json.Marshal do for one invocation.
\* value is what a successful call returns.
Env(fail, marshalFail, value) == [fail |-> fail, marshalFail |-> marshalFail, value |-> value]
NoBackend == Env(FALSE, FALSE, <<>>)
EnvsReturning(values) ==
    {Env(TRUE, FALSE, <<>>)} \cup {Env(FALSE, m, v) : m \in BOOLEAN, v \in values}
BackendEnvs == EnvsReturning({<<[Id |-> "evt1"]>>})

IdleRequest == [tool |-> "none", isMap |-> FALSE, args |-> <<>>]
Request(tool, isMap, args) == [tool |-> tool, isMap |-> isMap, args |-> args]

StrOrEmpty(a) == IF IsString(a) THEN a.v ELSE ""
BackendError == "backend error"
JSONText == <<"<json>">>

\* ---- calendar handlers --------------------------------------------------
\* CalendarListHandler
CalendarListHandler(cfg, req, env) ==
    LET cs == <<Call("ListCalendars", "", <<>>)>>
        filteredList == FilterCalendars(env.value, cfg)
    IN  IF env.fail
        THEN Out(ToolError(<<"failed to list calendars: ", BackendError>>), cs)
        ELSE IF Len(filteredList) = 0
        THEN Out(ToolText(<<"[]">>, <<>>), cs)
        ELSE IF env.marshalFail
        THEN Out(ToolError(<<"failed to marshal calendars to JSON: ", "marshal error">>), cs)
        ELSE Out(ToolText(JSONText, filteredList), cs)

\* CalendarListEventsHandler
CalendarListEventsHandler(cfg, req, env) ==
    IF ~req.isMap THEN Out(ToolError(<<"arguments must be a map">>), <<>>)
    ELSE
    LET args == req.args
        calendarID == CalendarIDOf(args)
        access == CheckCalendarAccess(calendarID, cfg)
        timeMin == StrOrEmpty(args.timeMin)
        timeMax == StrOrEmpty(args.timeMax)
        maxResults == IF args.maxResults.t = "number" THEN Int64(args.maxResults.v) ELSE 0
        cs == <<Call("ListEvents", calendarID, <<timeMin, timeMax, maxResults>>)>>
    IN  IF access.err THEN Out(ToolError(access.text), <<>>)
        ELSE IF env.fail
        THEN Out(ToolError(<<"failed to list events: ", BackendError>>), cs)
        ELSE IF env.marshalFail
        THEN Out(ToolError(<<"failed to marshal events to JSON: ", "marshal error">>), cs)
        ELSE Out(ToolText(JSONText, env.value), cs)

\* CalendarCreateEventHandler
CalendarCreateEventHandler(cfg, req, env) ==
    IF ~req.isMap THEN Out(ToolError(<<"arguments must be a map">>), <<>>)
    ELSE
    LET args == req.args
        calendarID == CalendarIDOf(args)
        access == CheckCalendarAccess(calendarID, cfg)
        recurrence == ParseRecurrence(args.recurrence)
        start == ParseEventDateTime(args.startTime.v)
        end == ParseEventDateTime(args.endTime.v)
        event == Event(args.summary.v, StrOrEmpty(args.description), StrOrEmpty(args.location),
                       start.value, end.value,
                       [isNil |-> recurrence.isNil, rules |-> recurrence.rules])
        cs == <<Call("CreateEvent", calendarID, <<event>>)>>
    IN  IF access.err THEN Out(ToolError(access.text), <<>>)
        ELSE IF ~IsString(args.summary) THEN Out(ToolError(<<"summary is required">>), <<>>)
        ELSE IF ~IsString(args.startTime) THEN Out(ToolError(<<"startTime is required">>), <<>>)
        ELSE IF ~IsString(args.endTime) THEN Out(ToolError(<<"endTime is required">>), <<>>)
        ELSE IF recurrence.err
        THEN Out(ToolError(<<"failed to parse recurrence: ", "json error">>), <<>>)
        ELSE IF start.err
        THEN Out(ToolError(<<"invalid startTime format: ", "parse error">>), <<>>)
        ELSE IF end.err
        THEN Out(ToolError(<<"invalid endTime format: ", "parse error">>), <<>>)
        ELSE IF env.fail
        THEN Out(ToolError(<<"failed to create event: ", BackendError>>), cs)
        ELSE IF env.marshalFail
        THEN Out(ToolError(<<"failed to marshal created event to JSON: ", "marshal error">>), cs)
        ELSE Out(ToolText(JSONText, env.value), cs)

\* CalendarPatchEventHandler
CalendarPatchEventHandler(cfg, req, env) ==
    IF ~req.isMap THEN Out(ToolError(<<"arguments must be a map">>), <<>>)
    ELSE
    LET args == req.args
        calendarID == CalendarIDOf(args)
        access == CheckCalendarAccess(calendarID, cfg)
        hasStart == IsString(args.startTime) /\ args.startTime.v # EmptyTime
        hasEnd == IsString(args.endTime) /\ args.endTime.v # EmptyTime
        start == IF hasStart THEN ParseEventDateTime(args.startTime.v)
                 ELSE [err |-> FALSE, value |-> NilDateTime]
        end == IF hasEnd THEN ParseEventDateTime(args.endTime.v)
               ELSE [err |-> FALSE, value |-> NilDateTime]
        recurrence == ParseRecurrence(args.recurrence)
        event == Event(StrOrEmpty(args.summary), StrOrEmpty(args.description),
                       StrOrEmpty(args.location), start.value, end.value,
                       [isNil |-> recurrence.isNil, rules |-> recurrence.rules])
        cs == <<Call("PatchEvent", calendarID, <<args.eventId.v, event>>)>>
    IN  IF access.err THEN Out(ToolError(access.text), <<>>)
        ELSE IF ~IsString(args.eventId) THEN Out(ToolError(<<"eventId is required">>), <<>>)
        ELSE IF start.err
        THEN Out(ToolError(<<"invalid startTime format: ", "parse error">>), <<>>)
        ELSE IF end.err
        THEN Out(ToolError(<<"invalid endTime format: ", "parse error">>), <<>>)
        ELSE IF recurrence.err
        THEN Out(ToolError(<<"failed to parse recurrence: ", "json error">>), <<>>)
        ELSE IF env.fail
        THEN Out(ToolError(<<"failed to patch event: ", BackendError>>), cs)
        ELSE IF env.marshalFail
        THEN Out(ToolError(<<"failed to marshal patched event to JSON: ", "marshal error">>), cs)
        ELSE Out(ToolText(JSONText, env.value), cs)

CalendarDeleteEventHandlerEventIDFirst(cfg, req, env) ==
    IF ~req.isMap THEN Out(ToolError(<<"arguments must be a map">>), <<>>)
    ELSE
    LET args == req.args
        calendarID == CalendarIDOf(args)
        access == CheckCalendarAccess(calendarID, cfg)
        cs == <<Call("DeleteEvent", calendarID, <<args.eventId.v>>)>>
    IN  IF ~IsString(args.eventId) THEN Out(ToolError(<<"eventId is required">>), <<>>)
        ELSE IF access.err THEN Out(ToolError(access.text), <<>>)
        ELSE IF env.fail
        THEN Out(ToolError(<<"failed to delete event: ", BackendError>>), cs)
        ELSE Out(ToolText(<<"Event ", args.eventId.v, " deleted successfully from calendar ",
                            calendarID>>, <<>>), cs)

\* CalendarDeleteEventHandler
CalendarDeleteEventHandler(cfg, req, env) ==
    IF ~req.isMap THEN Out(ToolError(<<"arguments must be a map">>), <<>>)
    ELSE
    LET args == req.args
        calendarID == CalendarIDOf(args)
        access == CheckCalendarAccess(calendarID, cfg)
        cs == <<Call("DeleteEvent", calendarID, <<args.eventId.v>>)>>
    IN  IF access.err THEN Out(ToolError(access.text), <<>>)
        ELSE IF ~IsString(args.eventId) THEN Out(ToolError(<<"eventId is required">>), <<>>)
        ELSE IF env.fail
        THEN Out(ToolError(<<"failed to delete event: ", BackendError>>), cs)
        ELSE Out(ToolText(<<"Event ", args.eventId.v, " deleted successfully from calendar ",
                            calendarID>>, <<>>), cs)

CalendarMoveEventHandlerDestinationUnchecked(cfg, req, env) ==
    IF ~req.isMap THEN Out(ToolError(<<"arguments must be a map">>), <<>>)
    ELSE
    LET args == req.args
        calendarID == CalendarIDOf(args)
        access == CheckCalendarAccess(calendarID, cfg)
        cs == <<Call("MoveEvent", calendarID, <<args.eventId.v, args.destination.v>>)>>
    IN  IF access.err THEN Out(ToolError(access.text), <<>>)
        ELSE IF ~IsString(args.eventId) THEN Out(ToolError(<<"eventId is required">>), <<>>)
        ELSE IF ~IsString(args.destination)
        THEN Out(ToolError(<<"destination is required">>), <<>>)
        ELSE IF env.fail
        THEN Out(ToolError(<<"failed to move event: ", BackendError>>), cs)
        ELSE IF env.marshalFail
        THEN Out(ToolError(<<"failed to marshal moved event to JSON: ", "marshal error">>), cs)
        ELSE Out(ToolText(JSONText, env.value), cs)

\* CalendarMoveEventHandler
CalendarMoveEventHandler(cfg, req, env) ==
    IF ~req.isMap THEN Out(ToolError(<<"arguments must be a map">>), <<>>)
    ELSE
    LET args == req.args
        calendarID == CalendarIDOf(args)
        access == CheckCalendarAccess(calendarID, cfg)
        destinationID == args.destination.v
        destAccess == CheckCalendarAccess(destinationID, cfg)
        cs == <<Call("MoveEvent", calendarID, <<args.eventId.v, destinationID>>)>>
    IN  IF access.err THEN Out(ToolError(access.text), <<>>)
        ELSE IF ~IsString(args.eventId) THEN Out(ToolError(<<"eventId is required">>), <<>>)
        ELSE IF ~IsString(args.destination)
        THEN Out(ToolError(<<"destination is required">>), <<>>)
        ELSE IF destAccess.err
        THEN Out(ToolError(<<"destination calendar: ">> \o destAccess.text), <<>>)
        ELSE IF env.fail
        THEN Out(ToolError(<<"failed to move event: ", BackendError>>), cs)
        ELSE IF env.marshalFail
        THEN Out(ToolError(<<"failed to marshal moved event to JSON: ", "marshal error">>), cs)
        ELSE Out(ToolText(JSONText, env.value), cs)

\* ---- one action per tool invocation ---------------------------------------
Ready == result = NoResult

Handled(req, out, env) ==
    /\ request' = req
    /\ result' = out.result
    /\ calls' = out.calls
    /\ backend' = IF out.calls = <<>> THEN NoBackend ELSE env
    /\ UNCHANGED config
    /\ UNCHANGED <<authVars, clientVars, mainVars, pathVars>>

\* A request whose arguments are a map with these values, or are no map.
Requests(tool, argSets) ==
    {Request(tool, TRUE, a) : a \in argSets} \cup {Request(tool, FALSE, <<>>)}

CalendarList ==
    /\ Ready
    /\ \E req \in Requests("calendar_list", {<<>>}), env \in EnvsReturning(CalendarLists) :
        Handled(req, CalendarListHandler(config, req, env), env)

CalendarListEvents ==
    /\ Ready
    /\ \E req \in Requests("calendar_list_events",
                           [calendar : CalendarArgs, timeMin : TextArgs("2024-01-01T00:00:00Z"),
                            timeMax : TextArgs("2024-12-31T00:00:00Z"),
                            maxResults : {Absent, Str("5"), Num(0, FALSE), Num(5, TRUE)}]),
          env \in BackendEnvs :
        Handled(req, CalendarListEventsHandler(config, req, env), env)

CalendarCreateEvent ==
    /\ Ready
    /\ \E req \in Requests("calendar_create_event",
                           [calendar : CalendarArgs, summary : RequiredArgs("Meeting"),
                            startTime : StartTimeArgs, endTime : EndTimeArgs,
                            description : TextArgs("notes"), location : TextArgs("office"),
                            recurrence : RecurrenceArgs]),
          env \in BackendEnvs :
        Handled(req, CalendarCreateEventHandler(config, req, env), env)

CalendarPatchEvent ==
    /\ Ready
    /\ \E req \in Requests("calendar_patch_event",
                           [calendar : CalendarArgs, eventId : RequiredArgs("evt1"),
                            summary : TextArgs("Meeting"),
                            startTime : StartTimeArgs, endTime : EndTimeArgs,
                            description : TextArgs("notes"), location : TextArgs("office"),
                            recurrence : RecurrenceArgs]),
          env \in BackendEnvs :
        Handled(req, CalendarPatchEventHandler(config, req, env), env)

CalendarDeleteEvent ==
    /\ Ready
    /\ \E req \in Requests("calendar_delete_event",
                           [calendar : CalendarArgs, eventId : RequiredArgs("evt1")]),
          env \in BackendEnvs :
        Handled(req, CalendarDeleteEventHandler(config, req, env), env)

CalendarMoveEvent ==
    /\ Ready
    /\ \E req \in Requests("calendar_move_event",
                           [calendar : CalendarArgs, eventId : RequiredArgs("evt1"),
                            destination : CalendarArgs]),
          env \in BackendEnvs :
        Handled(req, CalendarMoveEventHandler(config, req, env), env)

\* ---- Gmail handlers -----------------------------------------------------
MaxMessages == 2
MaxParts == 1
defaultMaxResults == 50
defaultMaxBodyBytes == 10000

\* mcp.NewToolResultJSON(data): the result, or the marshalling error as the
\* Go error.
ToolJSON(data, env) ==
    IF env.marshalFail
    THEN [kind |-> "error", isError |-> FALSE, text |-> <<>>, data |-> <<>>,
          err |-> "unable to marshal JSON"]
    ELSE ToolText(JSONText, data)

GmailSearchHandlerCallingFirst(req, env) ==
    LET query == StrOrEmpty(req.args.query)
        cs == <<Call("SearchMessages", "", <<query, defaultMaxResults>>)>>
    IN  IF ~req.isMap THEN Out(ToolError(<<"arguments must be a map">>), <<>>)
        ELSE IF ~IsString(req.args.query)
        THEN Out(ToolError(<<"query argument must be a string">>), cs)
        ELSE IF env.fail
        THEN Out(ToolError(<<"failed to search messages: ", BackendError>>), cs)
        ELSE Out(ToolJSON(<<[messages |-> env.value, count |-> Len(env.value)]>>, env), cs)

\* GmailSearchHandler
GmailSearchHandler(req, env) ==
    IF ~req.isMap THEN Out(ToolError(<<"arguments must be a map">>), <<>>)
    ELSE
    LET args == req.args
        query == args.query.v
        maxResults == IF args.maxResults.t = "number" THEN Int64(args.maxResults.v)
                      ELSE defaultMaxResults
        cs == <<Call("SearchMessages", "", <<query, maxResults>>)>>
    IN  IF ~IsString(args.query)
        THEN Out(ToolError(<<"query argument must be a string">>), <<>>)
        ELSE IF env.fail
        THEN Out(ToolError(<<"failed to search messages: ", BackendError>>), cs)
        ELSE Out(ToolJSON(<<[messages |-> env.value, count |-> Len(env.value)]>>, env), cs)

\* A message part: its MIME type, how Body.Data is encoded ("padded" or
\* "raw" base64url, or "bad") and the length of the decoded data (0: Data
\* is empty). A processed part: what Body.Data holds afterwards, with
\* marker telling that "... [TRUNCATED]" was appended.
Part(mime, enc, len) == [MimeType |-> mime, enc |-> enc, len |-> len]
Body(data, bytes, marker) == [data |-> data, bytes |-> bytes, marker |-> marker]

IsText(mime) == mime \in {"text/plain", "text/html"}

\* processPartBody: the new Body.Data and the new *currentBytes
ProcessPartBody(part, maxBytes, currentBytes) ==
    LET remaining == maxBytes - currentBytes
    IN  IF ~IsText(part.MimeType)
        THEN [body |-> Body("empty", 0, FALSE), currentBytes |-> currentBytes]
        ELSE IF part.enc = "bad"
        THEN [body |-> Body("encoded", part.len, FALSE), currentBytes |-> currentBytes]
        ELSE IF remaining <= 0
        THEN [body |-> Body("empty", 0, FALSE), currentBytes |-> currentBytes]
        ELSE IF part.len > remaining
        THEN [body |-> Body("decoded", remaining, TRUE), currentBytes |-> maxBytes]
        ELSE [body |-> Body("decoded", part.len, FALSE),
              currentBytes |-> currentBytes + part.len]

\* processPart on the parts of a message in depth-first pre-order: the
\* processed bodies, in that order.
RECURSIVE ProcessParts(_, _, _)
ProcessParts(parts, maxBytes, currentBytes) ==
    IF parts = <<>> THEN <<>>
    ELSE LET part == Head(parts)
             r == IF part.len > 0 THEN ProcessPartBody(part, maxBytes, currentBytes)
                  ELSE [body |-> Body("empty", 0, FALSE), currentBytes |-> currentBytes]
         IN  <<r.body>> \o ProcessParts(Tail(parts), maxBytes, r.currentBytes)

\* GmailReadHandler
GmailReadHandler(req, env) ==
    IF ~req.isMap THEN Out(ToolError(<<"arguments must be a map">>), <<>>)
    ELSE
    LET args == req.args
        id == args.messageId.v
        maxBodyBytes == IF args.maxBodyBytes.t = "number" THEN Int64(args.maxBodyBytes.v)
                        ELSE defaultMaxBodyBytes
        cs == <<Call("GetMessage", "", <<id>>)>>
    IN  IF ~IsString(args.messageId)
        THEN Out(ToolError(<<"messageId argument must be a string">>), <<>>)
        ELSE IF env.fail
        THEN Out(ToolError(<<"failed to get message: ", BackendError>>), cs)
        ELSE Out(ToolJSON(ProcessParts(env.value, maxBodyBytes, 0), env), cs)

MessageLists == SeqsUpTo({[Id |-> "m1"], [Id |-> "m2"]}, MaxMessages)
Parts ==
    {Part("text/plain", "padded", 2), Part("text/html", "raw", 3),
     Part("text/plain", "padded", 10001), Part("text/plain", "bad", 2),
     Part("image/png", "padded", 2), Part("text/plain", "padded", 0)}
\* The payload of a message and its nested parts, in pre-order.
Payloads == {<<p>> \o rest : p \in Parts, rest \in SeqsUpTo(Parts, MaxParts)}

GmailSearch ==
    /\ Ready
    /\ \E req \in Requests("gmail_search",
                           [query : RequiredArgs("from:a@example.com"),
                            maxResults : {Absent, Str("5"), Num(5, FALSE), Num(2, TRUE)}]),
          env \in EnvsReturning(MessageLists) :
        Handled(req, GmailSearchHandler(req, env), env)

GmailRead ==
    /\ Ready
    /\ \E req \in Requests("gmail_read",
                           [messageId : RequiredArgs("m1"),
                            maxBodyBytes : {Absent, Num(0, FALSE), Num(2, TRUE), Num(4, FALSE)}]),
          env \in EnvsReturning(Payloads) :
        Handled(req, GmailReadHandler(req, env), env)

\* ---- Obsidian handlers --------------------------------------------------
\* getArgs: the arguments, or an empty map when they are no map.
GetArgs(req, keys) == IF req.isMap THEN req.args ELSE [k \in keys |-> Absent]

\* A handler that calls one service method and reports its failure.
ObsidianCall(op, args, env, failText, okResult) ==
    LET cs == <<Call(op, "", args)>>
    IN  IF env.fail THEN Out(ToolError(<<failText, BackendError>>), cs)
        ELSE Out(okResult, cs)

\* GetActiveFileHandler
GetActiveFileHandler(req, env) ==
    ObsidianCall("ActiveFile.GetNote", <<>>, env, "failed to get active file: ",
                 ToolJSON(env.value, env))

\* AppendActiveFileHandler
AppendActiveFileHandler(req, env) ==
    LET args == GetArgs(req, {"content"})
    IN  IF ~IsString(args.content) THEN Out(ToolError(<<"content must be a string">>), <<>>)
        ELSE ObsidianCall("ActiveFile.Append", <<args.content.v>>, env,
                          "failed to append to active file: ",
                          ToolText(<<"Content appended successfully">>, <<>>))

\* PatchActiveFileHandler
PatchActiveFileHandler(req, env) ==
    LET args == GetArgs(req, {"operation", "target_type", "target", "content"})
    IN  ObsidianCall("ActiveFile.Patch",
                     <<StrOrEmpty(args.operation), StrOrEmpty(args.target_type),
                       StrOrEmpty(args.target), StrOrEmpty(args.content)>>, env,
                     "failed to patch active file: ",
                     ToolText(<<"File patched successfully">>, <<>>))

\* SearchSimpleHandler
SearchSimpleHandler(req, env) ==
    LET args == GetArgs(req, {"query", "context_length"})
        contextLen == IF args.context_length.t = "number" THEN Int64(args.context_length.v)
                      ELSE 0
    IN  ObsidianCall("Search.Simple", <<StrOrEmpty(args.query), contextLen>>, env,
                     "failed to search: ", ToolJSON(<<[results |-> env.value]>>, env))

\* SearchJSONLogicHandler: the query string must be JSON.
SearchJSONLogicHandler(req, env) ==
    LET args == GetArgs(req, {"query"})
        queryStr == StrOrEmpty(args.query)
    IN  IF queryStr # "{\"var\": \"x\"}"
        THEN Out(ToolError(<<"invalid JSON logic query: ", "json error">>), <<>>)
        ELSE ObsidianCall("Search.JsonLogic", <<queryStr>>, env, "failed to search: ",
                          ToolJSON(<<[results |-> env.value]>>, env))

\* GetDailyNoteHandler
GetDailyNoteHandler(req, env) ==
    ObsidianCall("Periodic.GetCurrentNote", <<"daily">>, env, "failed to get daily note: ",
                 ToolJSON(env.value, env))

\* GetFileHandler
GetFileHandler(req, env) ==
    LET args == GetArgs(req, {"path"})
    IN  ObsidianCall("Vault.GetNote", <<StrOrEmpty(args.path)>>, env, "failed to get file: ",
                     ToolJSON(env.value, env))

\* ListFilesHandler
ListFilesHandler(req, env) ==
    LET args == GetArgs(req, {"path"})
    IN  ObsidianCall("Vault.List", <<StrOrEmpty(args.path)>>, env, "failed to list files: ",
                     ToolJSON(<<[files |-> env.value]>>, env))

\* CreateOrUpdateFileHandler
CreateOrUpdateFileHandler(req, env) ==
    LET args == GetArgs(req, {"path", "content"})
    IN  ObsidianCall("Vault.Create", <<StrOrEmpty(args.path), StrOrEmpty(args.content)>>, env,
                     "failed to create/update file: ",
                     ToolText(<<"File created/updated successfully">>, <<>>))

\* OpenFileHandler
OpenFileHandler(req, env) ==
    LET args == GetArgs(req, {"path", "new_leaf"})
        newLeaf == args.new_leaf.t = "bool" /\ args.new_leaf.v
    IN  ObsidianCall("Open.File", <<StrOrEmpty(args.path), newLeaf>>, env,
                     "failed to open file: ", ToolText(<<"File opened successfully">>, <<>>))

ObsidianEnvs == EnvsReturning({<<"a.md">>})
Bool(b) == [t |-> "bool", v |-> b]

GetActiveFile ==
    /\ Ready
    /\ \E req \in Requests("obsidian_get_active_file", {<<>>}), env \in ObsidianEnvs :
        Handled(req, GetActiveFileHandler(req, env), env)

AppendActiveFile ==
    /\ Ready
    /\ \E req \in Requests("obsidian_append_active_file", [content : RequiredArgs("text")]),
          env \in ObsidianEnvs :
        Handled(req, AppendActiveFileHandler(req, env), env)

PatchActiveFile ==
    /\ Ready
    /\ \E req \in Requests("obsidian_patch_active_file",
                           [operation : TextArgs("append"), target_type : TextArgs("heading"),
                            target : TextArgs("Title"), content : TextArgs("text")]),
          env \in ObsidianEnvs :
        Handled(req, PatchActiveFileHandler(req, env), env)

SearchSimple ==
    /\ Ready
    /\ \E req \in Requests("obsidian_search_simple",
                           [query : TextArgs("todo"),
                            context_length : {Absent, Num(10, FALSE)}]),
          env \in ObsidianEnvs :
        Handled(req, SearchSimpleHandler(req, env), env)

SearchJSONLogic ==
    /\ Ready
    /\ \E req \in Requests("obsidian_search_json_logic",
                           [query : {Absent, Num(1, FALSE), Str("{\"var\": \"x\"}"),
                                     Str("{\"var\": ")}]),
          env \in ObsidianEnvs :
        Handled(req, SearchJSONLogicHandler(req, env), env)

GetDailyNote ==
    /\ Ready
    /\ \E req \in Requests("obsidian_get_daily_note", {<<>>}), env \in ObsidianEnvs :
        Handled(req, GetDailyNoteHandler(req, env), env)

GetFile ==
    /\ Ready
    /\ \E req \in Requests("obsidian_get_file", [path : RequiredArgs("a.md")]),
          env \in ObsidianEnvs :
        Handled(req, GetFileHandler(req, env), env)

ListFiles ==
    /\ Ready
    /\ \E req \in Requests("obsidian_list_files", [path : RequiredArgs("notes/")]),
          env \in ObsidianEnvs :
        Handled(req, ListFilesHandler(req, env), env)

CreateOrUpdateFile ==
    /\ Ready
    /\ \E req \in Requests("obsidian_create_or_update_file",
                           [path : RequiredArgs("a.md"), content : TextArgs("text")]),
          env \in ObsidianEnvs :
        Handled(req, CreateOrUpdateFileHandler(req, env), env)

OpenFile ==
    /\ Ready
    /\ \E req \in Requests("obsidian_open_file",
                           [path : RequiredArgs("a.md"),
                            new_leaf : {Absent, Bool(TRUE), Bool(FALSE), Str("yes")}]),
          env \in ObsidianEnvs :
        Handled(req, OpenFileHandler(req, env), env)

\* The server sends the result and waits for the next request.
Respond ==
    /\ ~Ready
    /\ request' = IdleRequest
    /\ result' = NoResult
    /\ calls' = <<>>
    /\ backend' = NoBackend
    /\ UNCHANGED config
    /\ UNCHANGED <<authVars, clientVars, mainVars, pathVars>>

AuthIdle ==
    /\ pc = "start"
    /\ file = FileAbsent
    /\ tok = NilToken
    /\ newTok = NilToken
    /\ client = NoClient
    /\ listener = "none"
    /\ authCode = ""
    /\ codeFrom = "none"
    /\ hstate = [h \in Handlers |-> "idle"]
    /\ hreq = [h \in Handlers |-> NoRequest]
    /\ events = <<>>
    /\ ncalls = 1

InitTools ==
    /\ config \in Allowlists
    /\ request = IdleRequest
    /\ result = NoResult
    /\ calls = <<>>
    /\ backend = NoBackend
    /\ AuthIdle
    /\ ClientsIdle
    /\ MainIdle
    /\ PathsIdle

NextTools ==
    \/ CalendarList
    \/ CalendarListEvents
    \/ CalendarCreateEvent
    \/ CalendarPatchEvent
    \/ CalendarDeleteEvent
    \/ CalendarMoveEvent
    \/ GmailSearch
    \/ GmailRead
    \/ GetActiveFile
    \/ AppendActiveFile
    \/ PatchActiveFile
    \/ SearchSimple
    \/ SearchJSONLogic
    \/ GetDailyNote
    \/ GetFile
    \/ ListFiles
    \/ CreateOrUpdateFile
    \/ OpenFile
    \/ Respond

SpecTools == InitTools /\ [][NextTools]_vars

(***************************************************************************)
(* Properties of the tool handlers, over the last invocation: its request, *)
(* its result, the backend calls it made and what the backend did.         *)
(***************************************************************************)
EventTools ==
    {"calendar_list_events", "calendar_create_event", "calendar_patch_event",
     "calendar_delete_event", "calendar_move_event"}

Listed(id) == \E i \in 1..Len(config) : config[i] = id

\* The first piece of the result's text: the fixed part of the message.
Message == IF result.text = <<>> THEN "" ELSE result.text[1]

AccessDenied(id) == Contains(result.text, <<ErrAccessDenied, ": ", id>>)

\* C6: with a non-empty list of calendars, the five event tools make no
\* backend call for a calendar ID outside the list, and a request for such
\* an ID gets an error result whose text contains
\* "access to calendar is not allowed by configuration: <calendarID>";
\* with an empty list no request is denied.
C6_AllowlistEnforced ==
    (request.tool \in EventTools) =>
        /\ Len(config) > 0 => \A i \in 1..Len(calls) : Listed(calls[i].calendarID)
        /\ (request.isMap /\ Len(config) > 0 /\ ~Listed(CalendarIDOf(request.args))) =>
              /\ calls = <<>>
              /\ result.isError
              /\ AccessDenied(CalendarIDOf(request.args))
        /\ Len(config) = 0 =>
              \A i \in 1..Len(result.text) : result.text[i] # ErrAccessDenied

C6_Witness ==
    /\ request.tool = "calendar_move_event"
    /\ request.isMap
    /\ config = <<"primary">>
    /\ request.args.calendar = Str("blocked")
    /\ request.args.destination = Str("work")
    /\ calls = <<>>
    /\ AccessDenied("blocked")

\* C7: calendar_list returns the entries of the backend's list whose ID is
\* allowed (all of them when the configured list is empty), each once and
\* in the backend's order; when none remains the result is the text "[]"
\* and no error.
C7_ListIsFilteredBackendList ==
    (request.tool = "calendar_list" /\ ~backend.fail) =>
        LET Allowed(c) == Len(config) = 0 \/ Listed(c.Id)
            kept == SelectSeq(backend.value, Allowed)
        IN  IF kept = <<>>
            THEN result = ToolText(<<"[]">>, <<>>)
            ELSE ~backend.marshalFail => result = ToolText(JSONText, kept)

C7_Witness ==
    /\ request.tool = "calendar_list"
    /\ config = <<"work", "primary">>
    /\ backend.value = <<[Id |-> "primary"], [Id |-> "work"]>>
    /\ result.data = <<[Id |-> "primary"], [Id |-> "work"]>>

\* The messages of the results that reject a request before any backend
\* call: access denied, a missing or mistyped argument, a parse error.
RejectionMessages ==
    {"arguments must be a map", ErrAccessDenied, "destination calendar: ",
     "summary is required", "startTime is required", "endTime is required",
     "eventId is required", "destination is required",
     "failed to parse recurrence: ", "invalid startTime format: ",
     "invalid endTime format: ", "query argument must be a string",
     "messageId argument must be a string", "content must be a string",
     "invalid JSON logic query: "}

Rejected == result.isError /\ Message \in RejectionMessages

\* C8: an invocation of a calendar, Gmail or Obsidian tool makes at most
\* one backend call: none when it returns an access-denied,
\* missing-argument or parse error, exactly one otherwise; a failed call is
\* reported and not repeated.
C8_AtMostOneBackendCall ==
    /\ Len(calls) <= 1
    /\ request.tool # "none" =>
          /\ Rejected => calls = <<>>
          /\ ~Rejected => Len(calls) = 1
          /\ backend.fail => (Len(calls) = 1 /\ result.isError)

C8_Witness ==
    /\ request.tool = "gmail_search"
    /\ backend.fail
    /\ Len(calls) = 1
    /\ calls[1].op = "SearchMessages"
    /\ result.isError

\* Whether time.Parse accepts the string in one of the two layouts, and
\* whether the recurrence argument is a string that starts with '[' and is
\* no JSON array of strings.
Parseable(v) == ParseOk("date", v) \/ ParseOk("rfc3339", v)
BadRecurrence(a) == IsString(a) /\ a.v.bracket /\ ~a.v.valid

CreateRejected(message) ==
    /\ result.isError
    /\ Message = message
    /\ calls = <<>>

\* What C9 says of a request with these arguments.
RequiredArgumentsReported(a) ==
    /\ ~IsString(a.summary) => CreateRejected("summary is required")
    /\ (IsString(a.summary) /\ ~IsString(a.startTime)) =>
          CreateRejected("startTime is required")
    /\ (IsString(a.summary) /\ IsString(a.startTime) /\ ~IsString(a.endTime)) =>
          CreateRejected("endTime is required")

TimeFormatsReported(a) ==
    (IsString(a.summary) /\ IsString(a.startTime) /\ IsString(a.endTime)) =>
        /\ ~Parseable(a.startTime.v) => CreateRejected("invalid startTime format: ")
        /\ (Parseable(a.startTime.v) /\ ~Parseable(a.endTime.v)) =>
              CreateRejected("invalid endTime format: ")

\* C9 (as claimed): calendar_create_event answers a summary, startTime or
\* endTime that is absent or no string with "<name> is required", naming
\* the first such argument, and an unparseable startTime or endTime with
\* "invalid startTime format" / "invalid endTime format"; in none of these
\* cases is CreateEvent called.
C9_RequiredArgumentsReported ==
    (request.tool = "calendar_create_event" /\ request.isMap) =>
        /\ RequiredArgumentsReported(request.args)
        /\ TimeFormatsReported(request.args)

\* C9 (amended): the same, for a request whose calendar passes the
\* allowlist and, for the two format errors, whose recurrence parses; a
\* request for a calendar outside the list is answered with the
\* access-denied error and a bad recurrence with "failed to parse
\* recurrence", whatever the other arguments are; CreateEvent is called
\* in none of these cases.
C9_RequiredArgumentsReportedWhenAllowed ==
    (request.tool = "calendar_create_event" /\ request.isMap) =>
        LET a == request.args
            id == CalendarIDOf(a)
        IN  IF Len(config) > 0 /\ ~Listed(id)
            THEN CreateRejected(ErrAccessDenied) /\ AccessDenied(id)
            ELSE /\ RequiredArgumentsReported(a)
                 /\ IF BadRecurrence(a.recurrence)
                    THEN (IsString(a.summary) /\ IsString(a.startTime) /\ IsString(a.endTime))
                            => CreateRejected("failed to parse recurrence: ")
                    ELSE TimeFormatsReported(a)

C9_Witness ==
    /\ request.tool = "calendar_create_event"
    /\ request.isMap
    /\ config = <<"work">>
    /\ request.args.calendar = Str("work")
    /\ request.args.summary = Str("Meeting")
    /\ request.args.startTime = Str(DateStr(2024, 2, 29))
    /\ request.args.endTime = Str(DateStr(2024, 13, 1))
    /\ ~BadRecurrence(request.args.recurrence)
    /\ CreateRejected("invalid endTime format: ")

\* What C10 says of the value parseEventDateTime gives for the string v.
DateOrDateTime(v, dt) ==
    /\ dt.ptr = "set"
    /\ (dt.Date = EmptyTime) # (dt.DateTime = EmptyTime)
    /\ v.layout = "date" => (dt.Date = v /\ dt.DateTime = EmptyTime)
    /\ v.layout = "rfc3339" =>
          /\ dt.Date = EmptyTime
          /\ dt.DateTime.layout = "rfc3339"
          /\ <<dt.DateTime.year, dt.DateTime.month, dt.DateTime.day, dt.DateTime.hour>>
                = <<v.year, v.month, v.day, v.hour>>
          /\ ZoneOffset(dt.DateTime.zone) = ZoneOffset(v.zone)
    /\ v.layout \in {"date", "rfc3339"}

\* The time argument is given: a string and, for calendar_patch_event, not
\* the empty one.
Given(a) ==
    /\ IsString(a)
    /\ request.tool = "calendar_patch_event" => a.v # EmptyTime

\* C10: the event that calendar_create_event and calendar_patch_event hand
\* to the backend has as Start and End the value of parseEventDateTime for
\* the startTime and endTime given: exactly one of Date and DateTime is
\* set, Date equal to a "YYYY-MM-DD" input with DateTime empty, DateTime
\* for an RFC3339 input with Date empty; no call is made with any other
\* input.
C10_ExactlyOneOfDateAndDateTime ==
    \A i \in 1..Len(calls) :
        calls[i].op \in {"CreateEvent", "PatchEvent"} =>
            LET event == calls[i].args[Len(calls[i].args)]
                a == request.args
            IN  /\ Given(a.startTime) => DateOrDateTime(a.startTime.v, event.Start)
                /\ Given(a.endTime) => DateOrDateTime(a.endTime.v, event.End)
                /\ Given(a.startTime) => Parseable(a.startTime.v)
                /\ Given(a.endTime) => Parseable(a.endTime.v)

C10_Witness ==
    /\ request.tool = "calendar_patch_event"
    /\ Len(calls) = 1
    /\ request.args.startTime = Str(DateTimeStr(2024, 2, 29, 10, TRUE, "+00:00"))
    /\ request.args.endTime = Str(DateStr(2024, 2, 29))
    /\ calls[1].args[2].Start =
          EventDateTime(EmptyTime, DateTimeStr(2024, 2, 29, 10, FALSE, "Z"))
    /\ calls[1].args[2].End = EventDateTime(DateStr(2024, 2, 29), EmptyTime)

\* The argument of the last request under this name: absent when the
\* arguments are no map.
CalendarArg == IF request.isMap THEN request.args.calendar ELSE Absent

NoCalendarGiven == ~IsString(CalendarArg) \/ CalendarArg.v = ""

PrimaryAllowed == Len(config) = 0 \/ Listed("primary")

\* What C11 says of a request of an event tool that names no calendar.
DefaultsToPrimary ==
    /\ \A i \in 1..Len(calls) : calls[i].calendarID = "primary"
    /\ ~PrimaryAllowed => (calls = <<>> /\ result.isError /\ AccessDenied("primary"))

\* C11 (as claimed): a request of an event tool whose calendar argument is
\* absent, empty or no string is served on calendar "primary" and checked
\* against the allowlist under that ID; calendar_list_events without
\* arguments calls ListEvents("primary", "", "", 0).
C11_DefaultCalendarIsPrimary ==
    (request.tool \in EventTools /\ NoCalendarGiven) =>
        /\ DefaultsToPrimary
        /\ (/\ request.tool = "calendar_list_events"
            /\ PrimaryAllowed
            /\ request.isMap =>
                  request.args = [calendar |-> Absent, timeMin |-> Absent,
                                  timeMax |-> Absent, maxResults |-> Absent])
           => calls = <<Call("ListEvents", "primary", <<"", "", 0>>)>>

\* C11, for requests whose arguments are a map (an empty map included):
\* the same.
C11_DefaultCalendarIsPrimaryForMaps ==
    (request.tool \in EventTools /\ request.isMap /\ NoCalendarGiven) =>
        /\ DefaultsToPrimary
        /\ (/\ request.tool = "calendar_list_events"
            /\ PrimaryAllowed
            /\ request.args = [calendar |-> Absent, timeMin |-> Absent,
                               timeMax |-> Absent, maxResults |-> Absent])
           => calls = <<Call("ListEvents", "primary", <<"", "", 0>>)>>

\* The event handed to PatchEvent by the last request.
PatchedEvent == calls[1].args[2]

PatchAllowed ==
    Len(config) = 0 \/ Listed(IF NoCalendarGiven THEN "primary" ELSE CalendarArg.v)

\* What C12 says of the patch sent for the arguments a.
OnlySuppliedFields(a) ==
    /\ calls[1].op = "PatchEvent"
    /\ calls[1].calendarID = (IF NoCalendarGiven THEN "primary" ELSE CalendarArg.v)
    /\ calls[1].args[1] = a.eventId.v
    /\ PatchedEvent.Summary = (IF IsString(a.summary) THEN a.summary.v ELSE "")
    /\ PatchedEvent.Description = (IF IsString(a.description) THEN a.description.v ELSE "")
    /\ PatchedEvent.Location = (IF IsString(a.location) THEN a.location.v ELSE "")
    /\ (~IsString(a.startTime) \/ a.startTime.v = EmptyTime) => PatchedEvent.Start = NilDateTime
    /\ (~IsString(a.endTime) \/ a.endTime.v = EmptyTime) => PatchedEvent.End = NilDateTime
    /\ a.recurrence = Absent => PatchedEvent.Recurrence = [isNil |-> TRUE, rules |-> <<>>]

\* C12 (as claimed): calendar_patch_event answers a missing eventId with
\* "eventId is required" and no PatchEvent call; the event it sends carries
\* only the supplied fields, with the calendar ID and eventId of the
\* request.
C12_PatchOnlySuppliedFields ==
    (request.tool = "calendar_patch_event" /\ request.isMap) =>
        /\ ~IsString(request.args.eventId) => CreateRejected("eventId is required")
        /\ calls # <<>> => OnlySuppliedFields(request.args)

\* C12 (amended): the same for a request whose calendar passes the
\* allowlist; a request for a calendar outside it is answered with the
\* access-denied error, whether or not it has an eventId.
C12_PatchOnlySuppliedFieldsWhenAllowed ==
    (request.tool = "calendar_patch_event" /\ request.isMap) =>
        /\ IF PatchAllowed
           THEN ~IsString(request.args.eventId) => CreateRejected("eventId is required")
           ELSE CreateRejected(ErrAccessDenied)
        /\ calls # <<>> => OnlySuppliedFields(request.args)

C12_Witness ==
    /\ request.tool = "calendar_patch_event"
    /\ request.isMap
    /\ request.args.eventId = Str("evt1")
    /\ request.args.summary = Str("Meeting")
    /\ request.args.description = Absent
    /\ request.args.startTime = Str(EmptyTime)
    /\ request.args.endTime = Str(DateStr(2024, 2, 29))
    /\ request.args.recurrence = Absent
    /\ Len(calls) = 1
    /\ PatchedEvent = Event("Meeting", "", StrOrEmpty(request.args.location), NilDateTime,
                            EventDateTime(DateStr(2024, 2, 29), EmptyTime),
                            [isNil |-> TRUE, rules |-> <<>>])

\* ---- gmail_read and gmail_search ------------------------------------------
\* The limit the last gmail_read request asks for.
MaxBodyBytesAsked ==
    IF request.isMap /\ request.args.maxBodyBytes.t = "number"
    THEN request.args.maxBodyBytes.v.whole
    ELSE 10000

\* The bytes of body data in the processed parts: all of it, and the part
\* of it that was decoded.
RECURSIVE SumBytes(_)
SumBytes(bodies) ==
    IF bodies = <<>> THEN 0 ELSE Head(bodies).bytes + SumBytes(Tail(bodies))

RECURSIVE SumDecoded(_)
SumDecoded(bodies) ==
    IF bodies = <<>> THEN 0
    ELSE (IF Head(bodies).data = "decoded" THEN Head(bodies).bytes ELSE 0)
         + SumDecoded(Tail(bodies))

ReadOk ==
    /\ request.tool = "gmail_read"
    /\ result.kind = "result"
    /\ ~result.isError

\* What C13 says of the i-th part, with this much of the budget left.
CutToBudget(i, remaining) ==
    LET part == backend.value[i]
    IN  /\ part.len <= remaining => result.data[i] = Body("decoded", part.len, FALSE)
        /\ (part.len > remaining /\ remaining > 0) =>
              result.data[i] = Body("decoded", remaining, TRUE)

\* C13 (as claimed): the body data gmail_read returns, summed over the
\* parts in pre-order, is at most maxBodyBytes bytes (10000 when the
\* argument is absent), the truncation marker apart; the text part that
\* crosses the limit is cut to the remaining budget and marked, a text
\* part that fits is returned decoded in full.
C13_BodyWithinMaxBodyBytes ==
    ReadOk =>
        /\ SumBytes(result.data) <= MaxBodyBytesAsked
        /\ \A i \in 1..Len(result.data) :
              (IsText(backend.value[i].MimeType) /\ backend.value[i].len > 0) =>
                  CutToBudget(i, MaxBodyBytesAsked - SumBytes(SubSeq(result.data, 1, i - 1)))

\* C13, for the parts whose data is base64url: the same, counting the
\* decoded data only.
C13_DecodedBodyWithinMaxBodyBytes ==
    ReadOk =>
        /\ SumDecoded(result.data) <= MaxBodyBytesAsked
        /\ \A i \in 1..Len(result.data) :
              (/\ IsText(backend.value[i].MimeType)
               /\ backend.value[i].len > 0
               /\ backend.value[i].enc # "bad") =>
                  CutToBudget(i, MaxBodyBytesAsked - SumDecoded(SubSeq(result.data, 1, i - 1)))

\* What C14 says of a gmail_search request with the arguments a.
SearchAnswered(a) ==
    IF ~IsString(a.query)
    THEN result = ToolError(<<"query argument must be a string">>) /\ calls = <<>>
    ELSE /\ Len(calls) = 1
         /\ calls[1].op = "SearchMessages"
         /\ calls[1].args[1] = a.query.v
         /\ a.maxResults = Absent => calls[1].args[2] = 50
         /\ a.maxResults.t = "number" => calls[1].args[2] = a.maxResults.v.whole
         /\ (~backend.fail /\ ~backend.marshalFail) =>
               /\ result.kind = "result"
               /\ ~result.isError
               /\ result.data = <<[messages |-> backend.value, count |-> Len(backend.value)]>>

\* C14 (as claimed): gmail_search answers a query that is missing or no
\* string with "query argument must be a string" and no backend call;
\* otherwise it asks the backend once, for the query and at most
\* maxResults messages (50 when absent, else the integer part of the
\* number), and returns the backend's messages with their number as count.
C14_SearchReturnsMessagesAndCount ==
    request.tool = "gmail_search" =>
        SearchAnswered(IF request.isMap THEN request.args
                       ELSE [query |-> Absent, maxResults |-> Absent])

\* C14 (amended): the same for a request whose arguments are a map; a
\* request whose arguments are no map is answered with "arguments must be
\* a map", also without a backend call.
C14_SearchReturnsMessagesAndCountForMaps ==
    request.tool = "gmail_search" =>
        IF request.isMap THEN SearchAnswered(request.args)
        ELSE result = ToolError(<<"arguments must be a map">>) /\ calls = <<>>

C14_Witness ==
    /\ request.tool = "gmail_search"
    /\ request.isMap
    /\ request.args.maxResults = Num(2, TRUE)
    /\ calls = <<Call("SearchMessages", "", <<"from:a@example.com", 2>>)>>
    /\ Len(backend.value) = 2
    /\ result.data = <<[messages |-> backend.value, count |-> 2]>>

(***************************************************************************)
(* ===========================  API clients  ============================= *)
(***************************************************************************)

\* ---- the Obsidian client: pkg/obsidian ----------------------------------
Tokens == {"", "key1", "key2"}

HeaderAdd(header, key, value) == [header EXCEPT ![key] = @ \o <<value>>]

\* req.Header.Set(key, value): the value replaces all values of the key.
HeaderSet(header, key, value) == [header EXCEPT ![key] = <<value>>]

\* http.NewRequestWithContext: a request without headers.
NewRequest(service, method, verb) ==
    [service |-> service, method |-> method, verb |-> verb, Header |-> NoHeader]

SetHeader(req, key, value) == [req EXCEPT !.Header = HeaderSet(req.Header, key, value)]

NoteJSON == <<"application/vnd.olrapi.note+json">>
Markdown == <<"text/markdown">>

\* The Patch methods: Operation, Target-Type, Target and Content-Type.
PatchRequest(service, method) ==
    SetHeader(SetHeader(SetHeader(SetHeader(NewRequest(service, method, "PATCH"),
        "Operation", <<"append">>), "Target-Type", <<"heading">>), "Target", <<"Title">>),
        "Content-Type", Markdown)

\* The request each method of a service builds before it calls do.
ActiveFileRequests ==
    {NewRequest("ActiveFile", "Get", "GET"),
     SetHeader(NewRequest("ActiveFile", "GetNote", "GET"), "Accept", NoteJSON),
     SetHeader(NewRequest("ActiveFile", "Append", "POST"), "Content-Type", Markdown),
     NewRequest("ActiveFile", "Delete", "DELETE"),
     PatchRequest("ActiveFile", "Patch")}

VaultRequests ==
    {NewRequest("Vault", "List", "GET"),
     NewRequest("Vault", "Get", "GET"),
     SetHeader(NewRequest("Vault", "GetNote", "GET"), "Accept", NoteJSON),
     SetHeader(NewRequest("Vault", "Create", "PUT"), "Content-Type", Markdown),
     NewRequest("Vault", "Delete", "DELETE")}

PeriodicRequests ==
    {NewRequest("Periodic", "GetCurrent", "GET"),
     SetHeader(NewRequest("Periodic", "GetCurrentNote", "GET"), "Accept", NoteJSON),
     SetHeader(NewRequest("Periodic", "AppendToCurrent", "POST"), "Content-Type", Markdown),
     PatchRequest("Periodic", "PatchCurrent"),
     NewRequest("Periodic", "DeleteCurrent", "DELETE"),
     NewRequest("Periodic", "Get", "GET")}

SearchRequests ==
    {NewRequest("Search", "Simple", "POST"),
     SetHeader(NewRequest("Search", "JsonLogic", "POST"), "Content-Type",
               <<"application/vnd.olrapi.jsonlogic+json">>),
     SetHeader(NewRequest("Search", "Dataview", "POST"), "Content-Type",
               <<"application/vnd.olrapi.dataview.dql+txt">>)}

CommandsRequests ==
    {NewRequest("Commands", "List", "GET"),
     NewRequest("Commands", "Execute", "POST")}

OpenRequests == {NewRequest("Open", "File", "POST")}

\* Client.do, up to c.http.Do(req): the request as it is sent.
Do(tk, req) == SetHeader(req, "Authorization", <<"Bearer ", tk>>)

\* A method of each service builds its request and hands it to do.
ActiveFileCall ==
    \E req \in ActiveFileRequests :
        /\ given' = req
        /\ wire' = Do(token, req)
        /\ UNCHANGED <<token, listArgs, listCall>>
        /\ UNCHANGED <<authVars, toolVars, mainVars, pathVars>>

VaultCall ==
    \E req \in VaultRequests :
        /\ given' = req
        /\ wire' = Do(token, req)
        /\ UNCHANGED <<token, listArgs, listCall>>
        /\ UNCHANGED <<authVars, toolVars, mainVars, pathVars>>

PeriodicCall ==
    \E req \in PeriodicRequests :
        /\ given' = req
        /\ wire' = Do(token, req)
        /\ UNCHANGED <<token, listArgs, listCall>>
        /\ UNCHANGED <<authVars, toolVars, mainVars, pathVars>>

SearchCall ==
    \E req \in SearchRequests :
        /\ given' = req
        /\ wire' = Do(token, req)
        /\ UNCHANGED <<token, listArgs, listCall>>
        /\ UNCHANGED <<authVars, toolVars, mainVars, pathVars>>

CommandsCall ==
    \E req \in CommandsRequests :
        /\ given' = req
        /\ wire' = Do(token, req)
        /\ UNCHANGED <<token, listArgs, listCall>>
        /\ UNCHANGED <<authVars, toolVars, mainVars, pathVars>>

OpenCall ==
    \E req \in OpenRequests :
        /\ given' = req
        /\ wire' = Do(token, req)
        /\ UNCHANGED <<token, listArgs, listCall>>
        /\ UNCHANGED <<authVars, toolVars, mainVars, pathVars>>

\* do as a function of its parameter: a request that already carries
\* Authorization values.
PresetAuthorizations ==
    {<<<<"Bearer ", "old">>>>, <<<<"Basic ", "dXNlcg==">>, <<"Bearer ", "key1">>>>}

DoPreset ==
    \E req \in ActiveFileRequests \cup OpenRequests, auth \in PresetAuthorizations :
        /\ given' = [req EXCEPT !.Header["Authorization"] = auth]
        /\ wire' = Do(token, given')
        /\ UNCHANGED <<token, listArgs, listCall>>
        /\ UNCHANGED <<authVars, toolVars, mainVars, pathVars>>

\* ---- the calendar client: Client.ListEvents ------------------------------
Clock ==
    {[year |-> 2024, month |-> 2, day |-> 29, hour |-> 10, frac |-> TRUE, offset |-> 0],
     [year |-> 2024, month |-> 4, day |-> 30, hour |-> 23, frac |-> TRUE, offset |-> 2]}

Unset == [set |-> FALSE, v |-> 0]
SetTo(v) == [set |-> TRUE, v |-> v]
UnsetTime == [set |-> FALSE, v |-> EmptyTime]

ListEventsAlwaysLimited(calendarID, timeMin, timeMax, maxResults, now) ==
    [built |-> TRUE, calendarID |-> calendarID, ShowDeleted |-> FALSE, SingleEvents |-> TRUE,
     OrderBy |-> "startTime",
     TimeMin |-> IF timeMin = EmptyTime THEN FormatRFC3339(now) ELSE timeMin,
     TimeMax |-> IF timeMax # EmptyTime THEN SetTo(timeMax) ELSE UnsetTime,
     MaxResults |-> SetTo(maxResults)]

\* Client.ListEvents, up to call.Do(): the Events.List call it built.
ListEvents(calendarID, timeMin, timeMax, maxResults, now) ==
    [built |-> TRUE, calendarID |-> calendarID, ShowDeleted |-> FALSE, SingleEvents |-> TRUE,
     OrderBy |-> "startTime",
     TimeMin |-> IF timeMin = EmptyTime THEN FormatRFC3339(now) ELSE timeMin,
     TimeMax |-> IF timeMax # EmptyTime THEN SetTo(timeMax) ELSE UnsetTime,
     MaxResults |-> IF maxResults > 0 THEN SetTo(maxResults) ELSE Unset]

TimeBounds == {EmptyTime, DateTimeStr(2024, 2, 29, 10, FALSE, "Z"), OtherTime}
MaxResultsValues == {-1, 0, 250}

ClientListEvents ==
    \E calendarID \in {"primary", "work"}, timeMin \in TimeBounds, timeMax \in TimeBounds,
       maxResults \in MaxResultsValues, now \in Clock :
        /\ listArgs' = [calendarID |-> calendarID, maxResults |-> maxResults,
                        timeMin |-> timeMin, timeMax |-> timeMax, now |-> now]
        /\ listCall' = ListEvents(calendarID, timeMin, timeMax, maxResults, now)
        /\ UNCHANGED <<token, given, wire>>
        /\ UNCHANGED <<authVars, toolVars, mainVars, pathVars>>

InitClients ==
    /\ token \in Tokens
    /\ given = NoHTTPRequest
    /\ wire = NoHTTPRequest
    /\ listArgs = NoListArgs
    /\ listCall = NoListCall
    /\ AuthIdle
    /\ ToolsIdle
    /\ MainIdle
    /\ PathsIdle

NextClients ==
    \/ ActiveFileCall
    \/ VaultCall
    \/ PeriodicCall
    \/ SearchCall
    \/ CommandsCall
    \/ OpenCall
    \/ DoPreset
    \/ ClientListEvents

SpecClients == InitClients /\ [][NextClients]_vars

\* C15: every request the Obsidian client sends, from whichever service,
\* carries exactly one Authorization value, "Bearer " followed by the token
\* given to NewClient, whatever Authorization values the request carried
\* before; its other headers are as the service set them.
C15_BearerTokenOnEveryRequest ==
    wire # NoHTTPRequest =>
        /\ wire.Header["Authorization"] = <<<<"Bearer ", token>>>>
        /\ wire.service = given.service
        /\ \A h \in HeaderNames \ {"Authorization"} : wire.Header[h] = given.Header[h]

C15_Witness ==
    /\ token = "key2"
    /\ given.service = "Open"
    /\ given.Header["Authorization"] = <<<<"Bearer ", "old">>>>
    /\ wire.Header["Authorization"] = <<<<"Bearer ", "key2">>>>

\* C17: Client.ListEvents asks for single events, ordered by start time,
\* deleted events excluded; timeMin is the argument, or the current time in
\* RFC3339 when it is empty; timeMax is sent only when not empty and
\* maxResults only when greater than 0.
C17_ListEventsDefaults ==
    listCall.built =>
        /\ listCall.calendarID = listArgs.calendarID
        /\ listCall.SingleEvents
        /\ ~listCall.ShowDeleted
        /\ listCall.OrderBy = "startTime"
        /\ listCall.TimeMin = (IF listArgs.timeMin = EmptyTime
                               THEN DateTimeStr(listArgs.now.year, listArgs.now.month,
                                                listArgs.now.day, listArgs.now.hour, FALSE,
                                                IF listArgs.now.offset = 0 THEN "Z"
                                                ELSE "+02:00")
                               ELSE listArgs.timeMin)
        /\ listCall.TimeMax.set = (listArgs.timeMax # EmptyTime)
        /\ listCall.TimeMax.set => listCall.TimeMax.v = listArgs.timeMax
        /\ listCall.MaxResults.set = (listArgs.maxResults > 0)
        /\ listCall.MaxResults.set => listCall.MaxResults.v = listArgs.maxResults

C17_Witness ==
    /\ listCall.built
    /\ listArgs.timeMin = EmptyTime
    /\ listArgs.timeMax = EmptyTime
    /\ listArgs.maxResults = 0
    /\ listCall.TimeMin = DateTimeStr(2024, 4, 30, 23, FALSE, "+02:00")
    /\ ~listCall.TimeMax.set
    /\ ~listCall.MaxResults.set

(***************************************************************************)
(* ==========================  main programs  =========================== *)
(***************************************************************************)
MaxSignals == 2

Programs == {"calendarmcp", "gmailmcp", "obsidianmcp"}
ArgLists == {<<>>, <<"list">>, <<"auth">>, <<"serve">>, <<"">>, <<"list", "auth">>}

DefaultPaths == <<"credentials.json", "token.json">>
\* cfg.Calendar.CredentialsFile and TokenFile as config.Load resolved them.
ConfiguredPaths == <<"/etc/bttk-mcp/credentials.json", "/etc/bttk-mcp/token.json">>

GetCredentialsPaths(c) == IF c # "nil" THEN ConfiguredPaths ELSE DefaultPaths

CalendarToolNames ==
    {"calendar_list", "calendar_list_events", "calendar_create_event",
     "calendar_patch_event", "calendar_delete_event", "calendar_move_event"}
GmailToolNames == {"gmail_search", "gmail_read"}

\* log.Fatalf, os.Exit(1): the process ends with status 1.
Fatal ==
    /\ mpc' = "exited"
    /\ exit' = 1

SubcommandFallingThrough(a) ==
    IF Len(a) > 0 /\ a[1] = "list" THEN "list"
    ELSE IF Len(a) > 0 /\ a[1] = "auth" THEN "auth"
    ELSE "server"

\* calendarmcp main: the switch on flag.Arg(0).
Subcommand(a) ==
    IF Len(a) > 0
    THEN IF a[1] = "list" THEN "list"
         ELSE IF a[1] = "auth" THEN "auth"
         ELSE "usage"
    ELSE "server"

CalendarMain ==
    /\ prog = "calendarmcp"
    /\ mpc = "main"
    /\ mode' = Subcommand(argv)
    /\ IF mode' = "usage"
       THEN /\ did' = did \cup {"usage"}
            /\ Fatal
       ELSE /\ mpc' = "setup"
            /\ UNCHANGED <<did, exit>>
    /\ UNCHANGED <<prog, argv, conf, paths, tools, pending, registered,
                   ctx, sigChan, signals, gpc>>
    /\ UNCHANGED <<authVars, toolVars, clientVars, pathVars>>

\* setup: a configuration that cannot be loaded is a warning; a client that
\* cannot be created is fatal.
Setup ==
    /\ prog = "calendarmcp"
    /\ mpc = "setup"
    /\ \E loaded \in BOOLEAN, created \in BOOLEAN :
        /\ conf' = IF loaded THEN "loaded" ELSE "nil"
        /\ paths' = GetCredentialsPaths(conf')
        /\ did' = did \cup (IF loaded THEN {} ELSE {"warning"})
                      \cup (IF created THEN {"client"} ELSE {})
        /\ IF created
           THEN /\ mpc' = mode
                /\ UNCHANGED exit
           ELSE Fatal
    /\ UNCHANGED <<prog, argv, mode, tools, pending, registered,
                   ctx, sigChan, signals, gpc>>
    /\ UNCHANGED <<authVars, toolVars, clientVars, pathVars>>

\* runList after setup.
RunList ==
    /\ prog = "calendarmcp"
    /\ mpc = "list"
    /\ \E ok \in BOOLEAN :
        IF ok
        THEN /\ did' = did \cup {"listed"}
             /\ mpc' = "exited"
             /\ exit' = 0
        ELSE /\ Fatal
             /\ UNCHANGED did
    /\ UNCHANGED <<prog, argv, mode, conf, paths, tools, pending, registered,
                   ctx, sigChan, signals, gpc>>
    /\ UNCHANGED <<authVars, toolVars, clientVars, pathVars>>

\* runAuth after setup.
RunAuth ==
    /\ prog = "calendarmcp"
    /\ mpc = "auth"
    /\ \E ok \in BOOLEAN :
        IF ok
        THEN /\ did' = did \cup {"verified"}
             /\ mpc' = "exited"
             /\ exit' = 0
        ELSE /\ Fatal
             /\ UNCHANGED did
    /\ UNCHANGED <<prog, argv, mode, conf, paths, tools, pending, registered,
                   ctx, sigChan, signals, gpc>>
    /\ UNCHANGED <<authVars, toolVars, clientVars, pathVars>>

\* runServer after setup, up to the call of serveStdio.  cfg.Calendar.Calendars
\* dereferences cfg: with cfg == nil the program panics (exit status 2).
RunServer ==
    /\ prog = "calendarmcp"
    /\ mpc = "server"
    /\ IF conf = "nil"
       THEN /\ did' = did \cup {"panic"}
            /\ mpc' = "exited"
            /\ exit' = 2
            /\ UNCHANGED registered
       ELSE /\ did' = did \cup {"tools registered"}
            /\ registered' = CalendarToolNames
            /\ mpc' = "serve"
            /\ UNCHANGED exit
    /\ UNCHANGED <<prog, argv, mode, conf, paths, tools, pending,
                   ctx, sigChan, signals, gpc>>
    /\ UNCHANGED <<authVars, toolVars, clientVars, pathVars>>

\* gmailmcp main, up to the call of serveStdio.
GmailMain ==
    /\ prog = "gmailmcp"
    /\ mpc = "main"
    /\ \E loaded \in BOOLEAN, created \in BOOLEAN, verified \in BOOLEAN :
        /\ conf' = IF loaded THEN "loaded" ELSE "nil"
        /\ IF ~loaded
           THEN /\ Fatal
                /\ UNCHANGED <<mode, paths, did, registered>>
           ELSE IF Len(argv) > 0 /\ argv[1] = "auth"
           THEN /\ mode' = "auth"
                /\ paths' = ConfiguredPaths
                /\ did' = did \cup (IF created THEN {"client"} ELSE {})
                              \cup (IF created /\ verified THEN {"verified"} ELSE {})
                /\ mpc' = "exited"
                /\ exit' = IF created /\ verified THEN 0 ELSE 1
                /\ UNCHANGED registered
           ELSE IF Len(argv) > 0
           THEN /\ mode' = "unknown"
                /\ Fatal
                /\ UNCHANGED <<paths, did, registered>>
           ELSE /\ mode' = "server"
                /\ paths' = ConfiguredPaths
                /\ IF created
                   THEN /\ did' = did \cup {"client", "tools registered"}
                        /\ registered' = GmailToolNames
                        /\ mpc' = "serve"
                        /\ UNCHANGED exit
                   ELSE /\ Fatal
                        /\ UNCHANGED <<did, registered>>
    /\ UNCHANGED <<prog, argv, tools, pending, ctx, sigChan, signals, gpc>>
    /\ UNCHANGED <<authVars, toolVars, clientVars, pathVars>>

\* ---- obsidianmcp: the tools enabled by the configuration ------------------
ToolRegistry ==
    {"get_active_file", "append_active_file", "patch_active_file", "search_simple",
     "search_json_logic", "get_daily_note", "get_file", "list_files",
     "create_or_update_file", "open_file"}

\* mcp.tools of the configuration file: absent, everything on, a mixture
\* with a name the registry does not know, and everything off.
ToolConfigs ==
    {{},
     {<<n, TRUE>> : n \in ToolRegistry},
     {<<"get_active_file", TRUE>>, <<"append_active_file", FALSE>>,
      <<"search_simple", TRUE>>, <<"get_file", FALSE>>, <<"open_file", TRUE>>,
      <<"delete_file", TRUE>>},
     {<<n, FALSE>> : n \in ToolRegistry}}

EnabledByDefault(t, name) == <<name, FALSE>> \notin t

\* enabled, ok := cfg.MCP.Tools[name]; ok && enabled
Enabled(t, name) ==
    LET ok == \E e \in t : e[1] = name
        enabled == <<name, TRUE>> \in t
    IN  ok /\ enabled

\* obsidianmcp main, up to the range loop over toolRegistry.
ObsidianMain ==
    /\ prog = "obsidianmcp"
    /\ mpc = "main"
    /\ \E loaded \in BOOLEAN, created \in BOOLEAN, t \in ToolConfigs :
        IF loaded /\ created
        THEN /\ conf' = "loaded"
             /\ tools' = t
             /\ did' = did \cup {"client"}
             /\ pending' = ToolRegistry
             /\ mpc' = "register"
             /\ UNCHANGED exit
        ELSE /\ conf' = IF loaded THEN "loaded" ELSE "nil"
             /\ Fatal
             /\ UNCHANGED <<tools, did, pending>>
    /\ UNCHANGED <<prog, argv, mode, paths, registered, ctx, sigChan, signals, gpc>>
    /\ UNCHANGED <<authVars, toolVars, clientVars, pathVars>>

\* One iteration of the range loop; Go visits the keys of a map in no
\* particular order.  After the last key main goes on to ServeStdio.
RegisterTools ==
    /\ prog = "obsidianmcp"
    /\ mpc = "register"
    /\ \E name \in pending :
        /\ registered' = IF Enabled(tools, name) THEN registered \cup {name} ELSE registered
        /\ pending' = pending \ {name}
        /\ did' = IF pending' = {} THEN did \cup {"tools registered"} ELSE did
        /\ mpc' = IF pending' = {} THEN "serve" ELSE "register"
    /\ UNCHANGED <<prog, argv, mode, conf, paths, exit, tools, ctx, sigChan, signals, gpc>>
    /\ UNCHANGED <<authVars, toolVars, clientVars, pathVars>>

\* ---- serveStdio / ServeStdio ---------------------------------------------
\* Up to the call of Listen: the context, the signal channel, the goroutine.
ServeStdio ==
    /\ mpc = "serve"
    /\ ctx' = "live"
    /\ sigChan' = 0
    /\ gpc' = "waiting"
    /\ did' = did \cup {"served"}
    /\ mpc' = "listening"
    /\ UNCHANGED <<prog, argv, mode, conf, paths, exit, tools, pending, registered, signals>>
    /\ UNCHANGED <<authVars, toolVars, clientVars, pathVars>>

\* The process receives SIGINT or SIGTERM after signal.Notify: the runtime
\* puts it into sigChan unless the buffer is full.
Signal ==
    /\ mpc \in {"listening", "returning", "returned"}
    /\ signals < MaxSignals
    /\ signals' = signals + 1
    /\ sigChan' = IF sigChan < 1 THEN sigChan + 1 ELSE sigChan
    /\ UNCHANGED <<prog, argv, mpc, mode, conf, paths, did, exit, tools, pending,
                   registered, ctx, gpc>>
    /\ UNCHANGED <<authVars, toolVars, clientVars, pathVars>>

GoroutineReceiveWithoutSignal ==
    /\ mpc # "exited"
    /\ gpc = "waiting"
    /\ gpc' = "cancel"
    /\ UNCHANGED <<prog, argv, mpc, mode, conf, paths, did, exit, tools, pending,
                   registered, ctx, sigChan, signals>>
    /\ UNCHANGED <<authVars, toolVars, clientVars, pathVars>>

\* The goroutine: <-sigChan
GoroutineReceive ==
    /\ mpc # "exited"
    /\ gpc = "waiting"
    /\ sigChan > 0
    /\ sigChan' = sigChan - 1
    /\ gpc' = "cancel"
    /\ UNCHANGED <<prog, argv, mpc, mode, conf, paths, did, exit, tools, pending,
                   registered, ctx, signals>>
    /\ UNCHANGED <<authVars, toolVars, clientVars, pathVars>>

\* The goroutine: cancel()
GoroutineCancel ==
    /\ mpc # "exited"
    /\ gpc = "cancel"
    /\ ctx' = "cancelled"
    /\ gpc' = "done"
    /\ UNCHANGED <<prog, argv, mpc, mode, conf, paths, did, exit, tools, pending,
                   registered, sigChan, signals>>
    /\ UNCHANGED <<authVars, toolVars, clientVars, pathVars>>

\* Listen returns because its input ended or failed.
ListenEnds ==
    /\ mpc = "listening"
    /\ \E err \in BOOLEAN :
        did' = did \cup {"listen returned"} \cup (IF err THEN {"server error"} ELSE {})
    /\ mpc' = "returning"
    /\ UNCHANGED <<prog, argv, mode, conf, paths, exit, tools, pending, registered,
                   ctx, sigChan, signals, gpc>>
    /\ UNCHANGED <<authVars, toolVars, clientVars, pathVars>>

\* Listen returns because its context is cancelled.
ListenCancelled ==
    /\ mpc = "listening"
    /\ ctx = "cancelled"
    /\ did' = did \cup {"listen returned", "server error", "context canceled"}
    /\ mpc' = "returning"
    /\ UNCHANGED <<prog, argv, mode, conf, paths, exit, tools, pending, registered,
                   ctx, sigChan, signals, gpc>>
    /\ UNCHANGED <<authVars, toolVars, clientVars, pathVars>>

\* The serve function returns: the deferred cancel() runs.
ServeReturns ==
    /\ mpc = "returning"
    /\ ctx' = "cancelled"
    /\ did' = did \cup {"serve returned"}
    /\ mpc' = "returned"
    /\ UNCHANGED <<prog, argv, mode, conf, paths, exit, tools, pending, registered,
                   sigChan, signals, gpc>>
    /\ UNCHANGED <<authVars, toolVars, clientVars, pathVars>>

\* main prints the server error, if any, and returns.
MainReturns ==
    /\ mpc = "returned"
    /\ mpc' = "exited"
    /\ exit' = 0
    /\ UNCHANGED <<prog, argv, mode, conf, paths, did, tools, pending, registered,
                   ctx, sigChan, signals, gpc>>
    /\ UNCHANGED <<authVars, toolVars, clientVars, pathVars>>

InitMain ==
    /\ prog \in Programs
    /\ argv \in ArgLists
    /\ mpc = "main"
    /\ mode = ""
    /\ conf = "nil"
    /\ paths = <<>>
    /\ did = {}
    /\ exit = 0
    /\ tools = {}
    /\ pending = {}
    /\ registered = {}
    /\ ctx = "none"
    /\ sigChan = 0
    /\ signals = 0
    /\ gpc = "none"
    /\ AuthIdle
    /\ ToolsIdle
    /\ ClientsIdle
    /\ PathsIdle

NextMain ==
    \/ CalendarMain
    \/ Setup
    \/ RunList
    \/ RunAuth
    \/ RunServer
    \/ GmailMain
    \/ ObsidianMain
    \/ RegisterTools
    \/ ServeStdio
    \/ Signal
    \/ GoroutineReceive
    \/ GoroutineCancel
    \/ ListenEnds
    \/ ListenCancelled
    \/ ServeReturns
    \/ MainReturns

SpecMain == InitMain /\ [][NextMain]_vars

\* The goroutines are scheduled, and Listen returns once its context is
\* cancelled.
SpecMainFair ==
    /\ SpecMain
    /\ WF_vars(GoroutineReceive)
    /\ WF_vars(GoroutineCancel)
    /\ WF_vars(ListenCancelled)
    /\ WF_vars(ServeReturns)

\* C16: once the range loop of obsidianmcp has ended, the tools registered
\* are exactly the keys of the registry that mcp.tools maps to true, in
\* whichever order the loop visited the keys; a key mapped to false or
\* absent from mcp.tools is not registered, and neither is a name of
\* mcp.tools that the registry does not have.  During the loop the same
\* holds of the keys already visited.
C16_RegisteredIffEnabled ==
    /\ (prog = "obsidianmcp" /\ mpc = "register") =>
           registered = {name \in ToolRegistry \ pending : <<name, TRUE>> \in tools}
    /\ (prog = "obsidianmcp" /\ "tools registered" \in did) =>
           /\ registered \subseteq ToolRegistry
           /\ \A name \in ToolRegistry : name \in registered <=> <<name, TRUE>> \in tools

C16_Witness ==
    /\ prog = "obsidianmcp"
    /\ mpc = "listening"
    /\ <<"delete_file", TRUE>> \in tools
    /\ <<"get_file", FALSE>> \in tools
    /\ registered = {"get_active_file", "search_simple", "open_file"}

\* The four outcomes of a calendarmcp run that the run has produced.
Outcomes == did \cap {"listed", "verified", "usage", "served"}

\* The outcome the first positional argument asks for.
Asked ==
    IF argv = <<>> THEN "served"
    ELSE IF argv[1] = "list" THEN "listed"
    ELSE IF argv[1] = "auth" THEN "verified"
    ELSE "usage"

\* C18 as claimed: every calendarmcp run ends with exactly one of the four
\* outcomes (calendars listed, access verified, usage printed, server
\* started).
C18_ExactlyOneOutcomePerRun ==
    (prog = "calendarmcp" /\ mpc = "exited") => Cardinality(Outcomes) = 1

\* C18: calendarmcp dispatches on its first positional argument.  A run
\* never produces an outcome other than the one that argument asks for, so
\* at most one; 'list' and 'auth' never start the server; any other
\* subcommand prints usage and exits with status 1 without creating a
\* client; a run that ends with status 0 has produced exactly the outcome
\* asked for.  (A run that ends with another status may have produced none.)
C18_DispatchOnFirstArgument ==
    prog = "calendarmcp" =>
        /\ Outcomes \subseteq {Asked}
        /\ argv # <<>> => ("served" \notin did /\ ctx = "none" /\ registered = {})
        /\ (mpc # "main" /\ Asked = "usage") =>
               /\ Outcomes = {"usage"}
               /\ mpc = "exited"
               /\ exit = 1
               /\ "client" \notin did
        /\ (mpc = "exited" /\ exit = 0) => Outcomes = {Asked}
        /\ "listed" \in did => (mpc = "exited" /\ exit = 0)
        /\ "verified" \in did => (mpc = "exited" /\ exit = 0)

C18_Witness ==
    /\ prog = "calendarmcp"
    /\ argv = <<"list", "auth">>
    /\ mpc = "exited"
    /\ exit = 0
    /\ did = {"client", "listed"}

C18_WitnessUsage ==
    /\ prog = "calendarmcp"
    /\ argv = <<"serve">>
    /\ mpc = "exited"
    /\ did = {"usage"}

\* C19: in every stdio server the listen context is cancelled only after a
\* signal has arrived or Listen has returned, and once SIGINT or SIGTERM
\* has been delivered the context is cancelled and the serve function
\* returns.
C19_GracefulShutdown ==
    /\ [](ctx = "cancelled" => (signals > 0 \/ "listen returned" \in did))
    /\ (signals > 0) ~> (ctx = "cancelled" /\ "serve returned" \in did)

C19_Witness ==
    /\ signals > 0
    /\ gpc = "done"
    /\ ctx = "cancelled"
    /\ "context canceled" \in did
    /\ "serve returned" \in did

\* C20 as claimed: when the configuration cannot be loaded, calendarmcp
\* goes on with the default credential paths in every mode and, in
\* server mode, registers the calendar tools and serves.
C20_ContinuesWithoutConfig ==
    (prog = "calendarmcp" /\ "warning" \in did) =>
        /\ paths = DefaultPaths
        /\ (mode = "server" /\ "client" \in did /\ mpc # "server") =>
               /\ "tools registered" \in did
               /\ registered = CalendarToolNames
               /\ mpc = "exited" => "served" \in did

\* What does hold without a configuration: the warning, the default
\* paths in every mode, and list and auth running to their end.
C20_DefaultPathsWithoutConfig ==
    (prog = "calendarmcp" /\ mpc \notin {"main", "setup"} /\ mode # "usage") =>
        /\ conf = "nil" <=> "warning" \in did
        /\ conf = "nil" => paths = DefaultPaths
        /\ conf # "nil" => paths = ConfiguredPaths
        /\ (conf = "nil" /\ mode = "server" /\ "client" \in did /\ mpc # "server") =>
               (did = {"warning", "client", "panic"} /\ exit = 2 /\ registered = {})

C20_WitnessList ==
    /\ prog = "calendarmcp"
    /\ conf = "nil"
    /\ paths = DefaultPaths
    /\ did = {"warning", "client", "listed"}
    /\ exit = 0

(***************************************************************************)
(* calendar_move_event and the order of the checks                         *)
(***************************************************************************)
Allowed(id) == Len(config) = 0 \/ Listed(id)

\* The calendar a request of an event tool is served on.
SourceID == IF NoCalendarGiven THEN "primary" ELSE CalendarArg.v

\* The last request was a calendar_move_event with a map of arguments.
Moved == request.tool = "calendar_move_event" /\ request.isMap

DestinationDenied ==
    /\ result.isError
    /\ result.text = <<"destination calendar: ", ErrAccessDenied, ": ",
                       request.args.destination.v>>

\* C23 as claimed: a move to a destination outside the allowlist, from a
\* source that passes it, is answered with the 'destination calendar: '
\* error.
C23_DisallowedDestinationReported ==
    (/\ Moved
     /\ Allowed(SourceID)
     /\ IsString(request.args.destination)
     /\ ~Allowed(request.args.destination.v)) => DestinationDenied

\* C23: calendar_move_event calls MoveEvent (once, with the source, the
\* eventId and the destination of the request) only when source and
\* destination pass the allowlist and eventId and destination are strings;
\* the checks run in the order source, eventId, destination present,
\* destination allowed, so a disallowed destination makes no backend call
\* and is answered 'destination calendar: ...' when the source passes and
\* eventId is a string, and a disallowed source is answered with the plain
\* access-denied error whatever the destination is.
C23_MoveOnlyBetweenAllowedCalendars ==
    request.tool = "calendar_move_event" =>
        /\ calls # <<>> =>
               /\ request.isMap
               /\ Allowed(SourceID)
               /\ IsString(request.args.eventId)
               /\ IsString(request.args.destination)
               /\ Allowed(request.args.destination.v)
               /\ calls = <<Call("MoveEvent", SourceID,
                                 <<request.args.eventId.v, request.args.destination.v>>)>>
        /\ (Moved /\ ~Allowed(SourceID)) =>
               /\ calls = <<>>
               /\ result = ToolError(<<ErrAccessDenied, ": ", SourceID>>)
        /\ (Moved /\ Allowed(SourceID) /\ ~IsString(request.args.eventId)) =>
               result = ToolError(<<"eventId is required">>)
        /\ (/\ Moved
            /\ IsString(request.args.destination)
            /\ ~Allowed(request.args.destination.v)) => calls = <<>>
        /\ (/\ Moved
            /\ Allowed(SourceID)
            /\ IsString(request.args.eventId)
            /\ IsString(request.args.destination)
            /\ ~Allowed(request.args.destination.v)) => DestinationDenied
        /\ (/\ Moved
            /\ Allowed(SourceID)
            /\ IsString(request.args.eventId)
            /\ IsString(request.args.destination)
            /\ Allowed(request.args.destination.v)) => Len(calls) = 1

C23_Witness ==
    /\ Moved
    /\ config = <<"work">>
    /\ request.args.calendar = Str("work")
    /\ request.args.eventId = Str("evt1")
    /\ request.args.destination = Str("blocked")
    /\ DestinationDenied
    /\ calls = <<>>

\* C24: in the five event handlers the allowlist check of the (source)
\* calendar comes before the validation of every other argument: the
\* result for a calendar outside the allowlist is the access-denied error
\* for that calendar ID and nothing else, without a backend call, so it is
\* the same for all requests that agree on the calendar, whatever their
\* other arguments are (missing, malformed or valid).
C24_DeniedBeforeOtherArguments ==
    (request.tool \in EventTools /\ request.isMap /\ ~Allowed(SourceID)) =>
        /\ result = ToolError(<<ErrAccessDenied, ": ", SourceID>>)
        /\ calls = <<>>

\* A delete without eventId and a create with a malformed start time, both
\* for the blocked calendar.
C24_WitnessDelete ==
    /\ request.tool = "calendar_delete_event"
    /\ request.isMap
    /\ request.args.calendar = Str("blocked")
    /\ ~IsString(request.args.eventId)
    /\ config # <<>>
    /\ result = ToolError(<<ErrAccessDenied, ": ", "blocked">>)

C24_WitnessCreate ==
    /\ request.tool = "calendar_create_event"
    /\ request.isMap
    /\ request.args.calendar = Str("blocked")
    /\ request.args.startTime \in {Str(t) : t \in InvalidTimes}
    /\ config # <<>>
    /\ result = ToolError(<<ErrAccessDenied, ": ", "blocked">>)

\* C27: every calendar tool handler returns a result and a nil Go error on
\* every path.  The result is flagged as an error when the request was
\* rejected before any backend call (arguments that are no map, access
\* denied, a missing or malformed argument), when the backend call failed
\* and when marshalling the answer failed; it is not flagged when the
\* backend call succeeded and, where the answer is marshalled, marshalling
\* did too.
C27_CalendarHandlersReturnNilError ==
    (request.tool \in EventTools \cup {"calendar_list"} /\ result # NoResult) =>
        /\ result.kind = "result"
        /\ result.err = "nil"
        /\ calls = <<>> => result.isError
        /\ (calls # <<>> /\ backend.fail) => result.isError
        /\ (calls # <<>> /\ ~backend.fail /\ ~backend.marshalFail) => ~result.isError
        /\ (calls # <<>> /\ ~backend.fail /\ backend.marshalFail) =>
               \/ result.isError /\ Contains(result.text, <<"marshal error">>)
               \/ ~result.isError /\ request.tool = "calendar_delete_event"
               \/ ~result.isError /\ result.text = <<"[]">>
        /\ (request.tool # "calendar_list" /\ ~request.isMap) =>
               result = [kind |-> "result", isError |-> TRUE,
                         text |-> <<"arguments must be a map">>, data |-> <<>>, err |-> "nil"]

C27_WitnessMarshalFailure ==
    /\ request.tool = "calendar_create_event"
    /\ calls # <<>>
    /\ backend.marshalFail
    /\ ~backend.fail
    /\ result.isError
    /\ result.err = "nil"

C27_WitnessSuccess ==
    /\ request.tool = "calendar_move_event"
    /\ Len(calls) = 1
    /\ ~backend.fail
    /\ ~result.isError
    /\ result.err = "nil"

(***************************************************************************)
(* URLs and file paths.                                                    *)
(*                                                                         *)
(* A path is the sequence of the segments between its "/" separators:      *)
(* "" is <<"">>, "/" is <<"", "">>, "/api/" is <<"", "api", "">> and       *)
(* "a/b" is <<"a", "b">>.  Concatenating the strings x + "/" + y is the    *)
(* concatenation of the sequences.                                         *)
(***************************************************************************)
MaxSegments == 3

\* The segments paths are built from.
SegmentNames == {"", ".", "..", "notes", "active"}

\* The path arguments of the vault calls: every string of at most
\* MaxSegments segments ("" is one empty segment).
PathArgs == SeqsUpTo(SegmentNames, MaxSegments) \ {<<>>}

\* strings.HasSuffix(s, "/") on a string with the segments s.
EndsWithSlash(s) == Len(s) >= 2 /\ s[Len(s)] = ""

\* The paths of the base URLs handed to NewClient (no query, no fragment):
\* "https://host", "https://host/", "https://host/api", "https://host/api/".
BaseURLs == {<<"">>, <<"", "">>, <<"", "api">>, <<"", "api", "">>}

\* obsidian.NewClient: the base URL gets a "/" appended unless it ends in one.
NewClient(u) == IF EndsWithSlash(u) THEN u ELSE u \o <<"">>

\* One round of the loop of url.resolvePath: dst after the element elem;
\* <<>> is the state "first" (nothing written after the leading "/").
ResolveStep(dst, elem) ==
    IF elem = "."
    THEN IF dst = <<>> THEN <<"">> ELSE dst
    ELSE IF elem = ".."
         THEN IF Len(dst) <= 1 THEN <<>> ELSE SubSeq(dst, 1, Len(dst) - 1)
         ELSE dst \o <<elem>>

RECURSIVE ResolveLoop(_, _)
ResolveLoop(dst, remaining) ==
    IF remaining = <<>>
    THEN dst
    ELSE ResolveLoop(ResolveStep(dst, Head(remaining)), Tail(remaining))

\* url.resolvePath for a relative reference: the reference replaces what
\* follows the last "/" of the base, "." and ".." elements are removed with
\* the element before "..", and the result starts with one "/".
resolvePath(base, ref) ==
    LET full == SubSeq(base, 1, Len(base) - 1) \o ref
        dst  == ResolveLoop(<<>>, full)
        last == full[Len(full)]
        str  == IF last \in {".", ".."}
                THEN (IF dst = <<>> THEN <<"">> ELSE dst) \o <<"">>
                ELSE IF dst = <<>> THEN <<"">> ELSE dst
    IN  IF Len(str) >= 2 /\ str[1] = "" THEN str ELSE <<"">> \o str

\* baseURL.ResolveReference(&url.URL{Path: "vault/" + path}): the path of
\* the URL of the request.
VaultURL(path) == resolvePath(baseURL, <<"vault">> \o path)

\* The request of one VaultService method called with the path vaultArg.
VaultRequest(op, method) ==
    /\ vaultArg # <<>>
    /\ vaultURL' = [op |-> op, method |-> method, path |-> VaultURL(vaultArg)]
    /\ UNCHANGED <<baseURL, vaultArg, confIn, confOut>>
    /\ UNCHANGED <<authVars, toolVars, clientVars, mainVars>>

VaultList == VaultRequest("List", "GET")
VaultGet == VaultRequest("Get", "GET")
VaultGetNote == VaultRequest("GetNote", "GET")
VaultCreate == VaultRequest("Create", "PUT")
VaultDelete == VaultRequest("Delete", "DELETE")

\* ---- config.Load ---------------------------------------------------------

\* The string "" as a path.
EmptyPath == <<"">>

\* filepath.IsAbs on Unix: the path starts with "/".
IsAbs(path) == Len(path) >= 2 /\ path[1] = ""

\* The loop of filepath.Clean: empty and "." elements are dropped, ".."
\* removes the element before it, stays at the root of a rooted path and is
\* kept at the front of a relative one.
RECURSIVE CleanLoop(_, _, _)
CleanLoop(out, rest, rooted) ==
    IF rest = <<>>
    THEN out
    ELSE LET elem == Head(rest)
             next == IF elem \in {"", "."}
                     THEN out
                     ELSE IF elem = ".."
                          THEN IF out # <<>> /\ out[Len(out)] # ".."
                               THEN SubSeq(out, 1, Len(out) - 1)
                               ELSE IF rooted THEN out ELSE out \o <<"..">>
                          ELSE out \o <<elem>>
         IN  CleanLoop(next, Tail(rest), rooted)

\* filepath.Clean: "" becomes ".", a rooted path keeps its "/".
Clean(path) ==
    LET out == CleanLoop(<<>>, path, IsAbs(path))
    IN  IF IsAbs(path)
        THEN <<"">> \o (IF out = <<>> THEN <<"">> ELSE out)
        ELSE IF out = <<>> THEN <<".">> ELSE out

\* filepath.Dir: all but the last element of the path, cleaned.
Dir(path) ==
    Clean(IF Len(path) >= 2 THEN SubSeq(path, 1, Len(path) - 1) \o <<"">> ELSE EmptyPath)

\* filepath.Join of two non-empty elements.
Join(dir, path) == Clean(dir \o path)

\* os.Getwd failed.
NoWd == <<>>

\* No file found, no path returned.
NoPath == <<>>

\* filepath.Abs with the working directory wd; NoPath is the error.
Abs(path, wd) ==
    IF IsAbs(path)
    THEN Clean(path)
    ELSE IF wd = NoWd THEN NoPath ELSE Join(wd, path)

\* resolve without the configuration directory: relative to the working
\* directory.
resolveAgainstWorkingDir(configDir, wd, p) ==
    IF p = EmptyPath \/ IsAbs(p)
    THEN p
    ELSE Abs(p, wd)

\* The closure resolve of Load.
resolve(configDir, wd, p) ==
    IF p = EmptyPath \/ IsAbs(p)
    THEN p
    ELSE Abs(Join(configDir, p), wd)

\* os.Open or the JSON decoder fails on these.
UnreadableFiles == {[kind |-> "missing"], [kind |-> "malformed"]}

\* The paths of a Config.
Paths(cert, gc, gt, cc, ct) ==
    [Obsidian |-> [Cert |-> cert],
     Gmail    |-> [CredentialsFile |-> gc, TokenFile |-> gt],
     Calendar |-> [CredentialsFile |-> cc, TokenFile |-> ct]]

\* Load returned (nil, err).
LoadError == [err |-> TRUE]

OrDefault(p, name) == IF p = EmptyPath THEN <<name>> ELSE p

\* config.Load(path) with the environment env: the XDG search result, the
\* working directory and the content of the file.
Load(path, env) ==
    LET found     == IF path = EmptyPath THEN env.xdg ELSE path
        configDir == Dir(found)
        res(p)    == resolve(configDir, env.wd, p)
        c         == env.file
        cert      == res(c.Obsidian.Cert)
        gc        == res(OrDefault(c.Gmail.CredentialsFile, "credentials.json"))
        gt        == res(OrDefault(c.Gmail.TokenFile, "token.json"))
        cc        == res(OrDefault(c.Calendar.CredentialsFile, "credentials.json"))
        ct        == res(OrDefault(c.Calendar.TokenFile, "token.json"))
    IN  IF found = NoPath \/ env.file \in UnreadableFiles
        THEN LoadError
        ELSE IF NoPath \in {cert, gc, gt, cc, ct}
             THEN LoadError
             ELSE [err |-> FALSE] @@ Paths(cert, gc, gt, cc, ct)

\* The -config values: none, "config.json", "conf/config.json",
\* "/home/conf/config.json".
ConfigPaths ==
    {EmptyPath, <<"config.json">>, <<"conf", "config.json">>,
     <<"", "home", "conf", "config.json">>}

\* What xdg.SearchConfigFile finds.
XdgResults == {NoPath, <<"", "home", ".config", "bttk-mcp", "config.json">>}

WorkingDirs == {NoWd, <<"", "work">>}

\* The paths written in a configuration file: none, "./creds.json",
\* "../keys/creds.json", "/etc/creds.json".
FieldPaths ==
    {EmptyPath, <<".", "creds.json">>, <<"..", "keys", "creds.json">>,
     <<"", "etc", "creds.json">>}

ConfigFiles ==
    UnreadableFiles \cup
    {[kind |-> "json"] @@ Paths(cert, gc, gt, cc, ct) :
        cert \in FieldPaths, gc \in FieldPaths, gt \in FieldPaths,
        cc \in FieldPaths, ct \in FieldPaths}

LoadInputs ==
    [path : ConfigPaths, xdg : XdgResults, wd : WorkingDirs, file : ConfigFiles]

\* One call of config.Load.
LoadConfig ==
    /\ confIn # <<>>
    /\ confOut' = Load(confIn.path, confIn)
    /\ UNCHANGED <<baseURL, vaultArg, vaultURL, confIn>>
    /\ UNCHANGED <<authVars, toolVars, clientVars, mainVars>>

InitPaths ==
    /\ \/ /\ baseURL \in {NewClient(u) : u \in BaseURLs}
          /\ vaultArg \in PathArgs
          /\ confIn = <<>>
       \/ /\ baseURL = <<"", "">>
          /\ vaultArg = <<>>
          /\ confIn \in LoadInputs
    /\ vaultURL = <<>>
    /\ confOut = <<>>
    /\ AuthIdle
    /\ ToolsIdle
    /\ ClientsIdle
    /\ MainIdle

NextPaths ==
    \/ VaultList
    \/ VaultGet
    \/ VaultGetNote
    \/ VaultCreate
    \/ VaultDelete
    \/ LoadConfig

SpecPaths == InitPaths /\ [][NextPaths]_vars

\* s starts with the segments of prefix.
HasPrefix(s, prefix) ==
    Len(s) >= Len(prefix) /\ SubSeq(s, 1, Len(prefix)) = prefix

\* "<base path>/vault/": the directory of the base URL, then "vault".
VaultDir == SubSeq(baseURL, 1, Len(baseURL) - 1) \o <<"vault">>

\* The request went to a URL under "<base path>/vault/".
UnderVault == Len(vaultURL.path) > Len(VaultDir) /\ HasPrefix(vaultURL.path, VaultDir)

\* The path argument has no ".." segment.
NoDotDot == \A i \in 1..Len(vaultArg) : vaultArg[i] # ".."

\* C25 (as claimed): for every path argument, with ".." segments or a
\* leading "/" too, List, Get, GetNote, Create and Delete send their request
\* to a URL under "<base path>/vault/".
C25_VaultPathConfined == vaultURL # <<>> => UnderVault

\* What the code does guarantee: NewClient keeps the base path, and a path
\* argument without ".." segments stays under "<base path>/vault/".
C25_ConfinedWithoutDotDot ==
    /\ EndsWithSlash(baseURL)
    /\ \E u \in BaseURLs : HasPrefix(baseURL, u)
    /\ vaultURL # <<>> /\ NoDotDot => UnderVault

\* Delete with the path "../active/" goes to "<base path>/active/".
C25_WitnessEscape ==
    /\ vaultURL # <<>>
    /\ vaultURL.op = "Delete"
    /\ vaultArg = <<"..", "active", "">>
    /\ vaultURL.path = SubSeq(baseURL, 1, Len(baseURL) - 1) \o <<"active", "">>

\* Load returned a *Config.
Loaded == confOut # <<>> /\ ~confOut.err

\* The configuration file Load read.
ConfigFile == IF confIn.path = EmptyPath THEN confIn.xdg ELSE confIn.path

\* The directory of the configuration file as an absolute path: the
\* directory the process finds the file in.
ConfigDirAbs ==
    LET a == IF IsAbs(ConfigFile) THEN ConfigFile ELSE confIn.wd \o ConfigFile
    IN  SubSeq(a, 1, Len(a) - 1)

\* The path out is what the configured path p must become; name is the
\* default file name, EmptyPath when there is none.
ResolvedAs(out, p, name) ==
    /\ IsAbs(p) => out = p
    /\ p = EmptyPath => out = (IF name = EmptyPath THEN EmptyPath ELSE ConfigDirAbs \o name)
    /\ p # EmptyPath /\ ~IsAbs(p) => out = Clean(ConfigDirAbs \o p)
    /\ resolve(Dir(ConfigFile), confIn.wd, out) = out

\* C26: after a successful Load the Gmail and Calendar credentials and token
\* files are non-empty absolute paths; an absolute configured path is kept, a
\* relative one is resolved against the directory of the configuration file,
\* an empty one becomes credentials.json / token.json in that directory; an
\* empty obsidian.cert stays empty; resolving a resolved path changes nothing.
C26_PathsResolvedAgainstConfigDir ==
    Loaded =>
        /\ \A out \in {confOut.Gmail.CredentialsFile, confOut.Gmail.TokenFile,
                       confOut.Calendar.CredentialsFile, confOut.Calendar.TokenFile} :
               out # EmptyPath /\ IsAbs(out)
        /\ ResolvedAs(confOut.Gmail.CredentialsFile,
                      confIn.file.Gmail.CredentialsFile, <<"credentials.json">>)
        /\ ResolvedAs(confOut.Gmail.TokenFile,
                      confIn.file.Gmail.TokenFile, <<"token.json">>)
        /\ ResolvedAs(confOut.Calendar.CredentialsFile,
                      confIn.file.Calendar.CredentialsFile, <<"credentials.json">>)
        /\ ResolvedAs(confOut.Calendar.TokenFile,
                      confIn.file.Calendar.TokenFile, <<"token.json">>)
        /\ ResolvedAs(confOut.Obsidian.Cert, confIn.file.Obsidian.Cert, EmptyPath)

\* Load of conf/config.json in /work: "../keys/creds.json" becomes
\* /work/keys/creds.json, the missing token file /work/conf/token.json, the
\* absolute path stays and the empty certificate stays empty.
C26_Witness ==
    /\ Loaded
    /\ confIn.path = <<"conf", "config.json">>
    /\ confIn.wd = <<"", "work">>
    /\ confIn.file.Gmail.CredentialsFile = <<"..", "keys", "creds.json">>
    /\ confOut.Gmail.CredentialsFile = <<"", "work", "keys", "creds.json">>
    /\ confIn.file.Gmail.TokenFile = EmptyPath
    /\ confOut.Gmail.TokenFile = <<"", "work", "conf", "token.json">>
    /\ confIn.file.Calendar.CredentialsFile = <<"", "etc", "creds.json">>
    /\ confOut.Calendar.CredentialsFile = <<"", "etc", "creds.json">>
    /\ confIn.file.Calendar.TokenFile = <<".", "creds.json">>
    /\ confOut.Calendar.TokenFile = <<"", "work", "conf", "creds.json">>
    /\ confIn.file.Obsidian.Cert = EmptyPath
    /\ confOut.Obsidian.Cert = EmptyPath

\* Load found its file through the XDG search.
C26_WitnessXdg ==
    /\ Loaded
    /\ confIn.path = EmptyPath
    /\ confIn.file.Obsidian.Cert = <<".", "creds.json">>
    /\ confOut.Obsidian.Cert = <<"", "home", ".config", "bttk-mcp", "creds.json">>

====
